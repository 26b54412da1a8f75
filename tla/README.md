# Verification of the Verrazzano Monitoring Instance API

The program ("Cirith") is a stateless HTTP server in front of a Kubernetes
namespace. Everything it manages (Prometheus alert rules, the Prometheus
configuration, Alertmanager templates) lives in ConfigMaps; a request reads one
or two of them, works on private copies and writes them back. Around that it has
a validation step that shares temporary files between requests, a startup
sequence, and functions that nothing calls yet: waiting for an endpoint,
restarting pods, copying a file into a pod, resizing a disk. The modules here
model the parts whose correctness depends on order, concurrency, failure or
arithmetic, check them with TLC, and prove the central results with TLAPS.

To check: `tlc -config <cfg> <module>` for the runs of `PROJECT.json`;
`tlapm M.tla` for M in `ConfigMapLemmas`, `ConfigMapProofs`, `HandlerLemmas`,
`PrometheusRulesProofs`, `PrometheusConfigProofs`, `TemplateProofs`,
`CheckedRulesProofs`, `ProcedureProofs`.

## Inventory

| Component | State | Operations | What is hard, and what should be true |
|---|---|---|---|
| ConfigMap access, `handlers/helper.go` | ConfigMaps in the API server | `getConfigMapByPath`, `getConfigMapByName`, `updateConfigMapByName` | The update reads a fresh resource version, overwrites the content, polls until it reads back what it wrote, at most 10 s. Conflicts, failed calls and lost answers. It should write at most once and report success only for what is there. |
| Version keys and retention, `handlers/helper.go`, `constants.go` | none | `sortKeysFromConfigMap`, `isOldVersion`, the pruning loops of both PUT handlers | Keys are `name-timestamp` with whole seconds, matched by prefix. Keep 10, expire what is 48 h old. Off-by-one at both limits, equal timestamps, names that begin with one another. |
| Rules endpoints, `handlers/prometheushandler.go` | `alertrules`, `alertrules-versions` | list, versions, get, get version, put, delete | Two maps written one after the other, from copies read before; a failure or a crash between them; concurrent requests. A copy should be saved before each replacement, a delete should be complete, one file should not disturb another. |
| Configuration endpoints, `handlers/prometheusconfighandler.go` | `prometheus-config`, `prometheus-config-versions` | get, get version, versions, put | As the rules, with a single file; a nil map when the ConfigMap is empty. |
| Validation with promtool, `saveDataToTempFile`, `checkPrometheusRules`, `checkPrometheusConfig` | 32 files in the temporary directory | create, write, check, remove | Concurrent requests share file names, remove each other's files and read each other's bodies. A check that shares nothing should be right, and no file should stay behind. |
| Structural validation, `ValidatePrometheusRuleElements`, `ValidateVMIPrometheusElements` | none | one function each | The first three scrape jobs, in order; panics on unexpected shapes. |
| Alertmanager templates, `handlers/alertmanagertemplateshandler.go` | one ConfigMap | list, get, put, delete | Read, change, write back whole; the VMI's error is ignored, and its nil used. Not routed by `router.go`. |
| Secrets | Secrets | `getSecretByName`, `updateSecretByName` | As ConfigMap access. No caller. |
| Retry and endpoint wait | none | `Retry`, `WaitForEndpointAvailable` | An early error hides a later success. No caller. |
| Pod restart | Pods | `RestartPodsByLabel`, `getPodsByLabel`, `getReadyPodsByLabel`, `deletePods`, `deletePod` | Some of several deletions fail. No caller. |
| Files in pods | one goroutine and a pipe per copy | `copyFile`, `deleteFile`, `makeTar` | The writer of the pipe when nobody reads. Success should mean that the pod has it all. No caller. |
| Storage sizing | the VMI resource | `modifyStorageCapacity`, getters of the VMI spec | Limits and rounding. No caller. |
| VMI resource | the VMI resource | `getVMIJson`, `updateVMIJson` | Single calls. |
| Router, health check, redirects | none | dispatch | Stateless. |
| Name checks, small helpers | none | `validateName`, `ValidateConfigMapKeyName`, `within`, `getNodeIPs` | Two tests for one thing, and the API server's own rule; version keys longer than the name. |
| Startup, flags, clients, logging | process globals | once | The command line is parsed twice, the first time before the server's own flags exist. |

How they interact: `net/http` starts a goroutine per request; the router calls
one handler; PUT handlers validate (structure, then promtool on a temporary
file); a handler then reads one or two ConfigMaps through `getConfigMapByPath`
and writes through `updateConfigMapByName`. There is no lock, no queue and no
memory shared between requests but the temporary files and the ConfigMaps.

## Modules

`Server` declares what the parts of the server share: requests, texts, `None`.
The endpoints build on the store; the functions of the third group stand alone.

| Module | Contents |
|---|---|
| **The store** | |
| `ConfigMaps` | The store (`cm`: content and resource version per map) and the calls of `updateConfigMapByName` in progress (`call`: one record per request, its phase is the line the function has reached). A library: actions without a `Next`. |
| `VerifiedWrite` | The abstract specification of that function: the map becomes what the caller asked for at one instant, at most once; "ok" only at an instant at which the map holds it; "err" says nothing. |
| `ConfigMapClients` | The function under the most general client, the refinement mapping to `VerifiedWrite`, fairness. |
| **The endpoints** | |
| `Versions` | Version keys and the helpers that select, order and expire them. Pure operators. |
| `Handlers` | What the rules and the configuration endpoints share: a request's state, its reads, the backup and the pruning, its two updates, answers, the clock, crashes. |
| `PrometheusRules`, `PrometheusConfig` | The handlers of the two groups of endpoints, composed of `Handlers`, `Versions` and `ConfigMaps`; each has a `Next`. |
| `HandlerProperties`, `PrometheusRulesProperties`, `PrometheusConfigProperties` | What both promise, and what each promises alone. |
| `VersionedFiles` | The abstract specification of the endpoints: files with versions, each step of one file. |
| `TempFiles` | The temporary files of the validation: names, files, checks; complete with a `Next` of its own. |
| `CheckedRules` | `PrometheusRules` composed with `TempFiles`: a PUT goes on only after its own check. |
| `AlertmanagerTemplates`, `TemplateProperties` | The template handlers on top of `ConfigMaps`; what they promise of requests that come one by one. |
| `TemplateStore` | The abstract specification of the template handlers: a set of named templates. |
| **Functions that work by themselves** | |
| `Procedure` | One call of one function: where it stands, what it returned. |
| `EndpointWait`, `PodRestart`, `CopyFile`, `StorageSizing`, `NameChecks`, `DocumentChecks`, `Startup` | One function or sequence each, with the variables it needs and whatever it depends on (an endpoint, pods, a stream, the VMI) changing on its own. |
| `Procedures` | Their union: any one of them is called. |
| **Proofs** | |
| `ConfigMapLemmas`, `HandlerLemmas` | Lemmas about the two libraries. |
| `ConfigMapProofs`, `PrometheusRulesProofs`, `PrometheusConfigProofs`, `TemplateProofs`, `CheckedRulesProofs` (with the temporary files), `ProcedureProofs` | The theorems. |
| **Instances** | `MCConfigMapClients`, `MCPrometheusRules`, `MCPrometheusConfig`, `MCCheckedRules`, `MCTemplates`, `MCProcedures` |

A definition marked "Faulty variant" is part of no behaviour: it is what the
definition after it would be with a plausible bug. Substituting it must break the
property `PROJECT.json` names for it, which shows that the property can fail.

### `ConfigMaps` and the code

`updateConfigMapByName` (helper.go 360-398) is one action per API call:
`UpdateGet` is its GET (only the resource version survives), `UpdatePut` its
accepted PUT, `UpdateConflict` the PUT refused because the version moved on,
`UpdatePutLost` an accepted PUT whose answer is lost, `UpdateFails` any call
that fails without effect, `PollHit`, `PollMiss` and `PollTimeout` the
`PollImmediate` loop. The API server is external: reads are linearizable, an
update needs the current version, and the version stays when nothing changes.
A content is a function from the keys to a value or `None`; the nil map an
empty ConfigMap is read as and the empty map it was written from are the same
function, as in lines 376-379.

### `Handlers` and the code

Per request: `req` the request, `pc` how far the handler has come, `cur` and
`sav` its copies of the two maps (`currentConfigMap`, `savedConfigMap`),
`reply` what it answered. One action per API call with the computation that
follows it. Lookups of the VMI resource inside `getConfigMapByPath` are part of
the read they precede. `Crash` ends every request in progress at once and leaves
the store.

The PUT handlers take the clock (`now`) in a step of their own, `PutBackup`,
because time passes between their reads and their `time.Now()`. The clock of the
model never goes back; the server's wall clock may, and nothing is claimed about
that.

A PUT has the two handlers' common steps from `Handlers` (`PutIdentical`,
`Backup`, `Replace`, `Finish`) and its own from its module. They differ in more
than names: the rules handler creates a missing file without a backup
(`PutCreate`); the configuration handler saves the missing text, which Go reads
as the empty string (`Blank`), and then assigns to a nil map (`PutPanic`).
`prometheus-config` has the one key `prometheus.yml` or is empty; a version
that holds the empty text is answered like a missing one (`GetVersion`).

In `PrometheusRules` and `PrometheusConfig` the verdict of the validation is a
free choice (`Reject` may or may not happen to any request, before anything is
read). `CheckedRules` replaces the choice, for the rules, by what really decides:
`Validated` lets a PUT go on only when its check of `TempFiles` has ended with
"valid", and `TurnDown` answers otherwise, not at all when there was no temporary
file. Abstracted throughout: the texts of answers, the order of listed names, and
which prefix relations hold between file names (the constant `Extends`). `served`
and `witnessed` are history variables; the handlers do not read them.

### `TempFiles` and the code

`saveDataToTempFile` (helper.go 160-180) is `CreateFile`, which truncates what is
there, and `WriteFile`, which puts the body at the beginning of the file, each
with its failure; `checkPrometheusRules` and `checkPrometheusConfig` are
`PromtoolOpens`, `PromtoolReads`, `PromtoolFails` and the deferred `RemoveFile`.
A file is identified with the check that created it, so that removing a name and
having a file open are two things. What is read while somebody writes, or after a
shorter body has been written over a longer one, is `Mixed`, on which promtool
may say anything. promtool is external.

### `AlertmanagerTemplates` and the code

A handler reads once, changes its copy and updates (`Change`), in one action up
to the call of `updateConfigMapByName`: there is no API call in between. GET and
DELETE use the VMI resource without looking at the error of reading it and panic;
`ReadFails` has that case. The router has no routes to these handlers. The model
uses them as their signatures say.

### The functions and the code

| Module | Function | State, steps |
|---|---|---|
| `EndpointWait` | `WaitForEndpointAvailable`, `Retry` (helper.go) | `left` attempts of the schedule, `lastErr` the error Retry keeps; `Attempt` is one call of the closure with what Retry makes of it, `Pause` the sleep. |
| `PodRestart` | `RestartPodsByLabel`, `getPodsByLabel`, `deletePods` | `todo` is the rest of the loop; `AfterDelete` is the loop's test of `err`; pods vanish and are replaced at any time. |
| `CopyFile` | `copyFile`, `makeTar` | The goroutine (`writer`, `rest`), the pipe (`read`, `atEnd`) and the pod's tar (`unpacked`), block by block; `MakeTarFails` leaves an archive without the file, or with its header only. That the stream ends with success only after tar has unpacked all it read is an assumption about the stream (`StreamDone`). |
| `StorageSizing` | `modifyStorageCapacity` and its getters | Three reads of the VMI, each of which may fail; `ToFloat` is the conversion to float32 with round to nearest even, for any length of the mantissa. |
| `NameChecks` | `validateName`, the suffix test of PUT, the API server's rule for keys (`IsConfigMapKey`, external) | A name is its length, the kinds of characters in its stem, whether it is "." or begins with "..", and whether it has the suffix; two PUTs of one name. |
| `DocumentChecks` | `ValidateVMIPrometheusElements`, `ValidatePrometheusRuleElements` | A document is a record of what is asked of the parsed JSON. |
| `Startup` | `main`, `GetConfig` | The two passes over the command line, then the client configuration and the name of the VMI. The branches for a kubeconfig or a name given by a flag are there as in the code, and as unreachable. |

## Runs

Each holds or fails as `PROJECT.json` says; sizes are distinct states.

| Run | Question | Bounds, and why they are enough |
|---|---|---|
| `configmap_clients` | Does `updateConfigMapByName` implement the blind verified write, does a wait always have an interfering write as its cause, and does every call return? | 3 callers, 1 map, 3 possible contents: two can interfere with a third, also by restoring its content. Calls on different maps do not interact. 34 thousand. |
| `rules_concurrent` | What holds for any two concurrent requests to the rules endpoints, with the checks of the PUTs, failures and crashes? | 2 requests of any kind, 2 files, 1 valid and 1 invalid body, 2 names of temporary files, 2 seconds, limits of 1 version and 1 unit of age, from empty maps and from maps with a version that can expire: the two draw the same name or not, meet at the same file or not. 335 thousand. |
| `rules_sequential` | What holds when requests do not overlap but may fail half way? | 2 requests of any kind, from empty maps, from files replaced once and twice, and from what a deletion that failed half way leaves. The handlers keep nothing between requests, so a longer history is an initial content. 3 seconds and 2 versions kept, so that a loop that keeps one too few is told from one that keeps none. 120 thousand. |
| `config` | The same two questions for the configuration, and: does every request end, is the newest version what the last PUT replaced? | 2 requests, concurrent or not (`alone` remembers which), 2 bodies, 3 seconds, from an empty map too. 74 thousand. |
| `templates` | Do foreign bodies ever appear in a template, and are the handlers a store of templates while requests come one by one? | 3 requests in flight, 2 names, 2 bodies: a third request is needed for a copy that is stale by two updates. 1.0 million. |
| `procedures` | What do the functions that work by themselves return, and do they? | 10 attempts as in `EndpointBackoffSchedule`; 3 pods; 20 blocks; sizes of up to 40 under a mantissa of 3 bits, so that some sizes are floats, some lie between two and some half way; names of up to 300 characters, the real limits; up to 4 scrape jobs; command lines of up to 3 arguments. 89 thousand. |
| `rules_lost_backup`, `rules_undone_delete`, `rules_prefix_name`, `rules_invalid`, `config_empty_map`, `pod_restart_all` | Documented promises the code does not keep; see Findings. | The smallest instance in which each shows; without failures or crashes, but for `pod_restart_all`, where a deletion may fail and pods come and go. |

Deadlock checking is off: once every request of an instance has been made and
answered and the clock has reached its bound, or the function has returned,
nothing is left to do.

Bounds: `MaxTime` bounds the clock, `MaxInflight` the number of requests in
progress; each member of `Requests` makes one request, which also bounds the
resource versions. `MaxBackupFiles` is 1 or 2 and `MaxBackupHours` 1 where the
code has 10 and 48: the pruning loop only compares with them, and the runs hold
versions on both sides of either limit. `Bits` is 3 where a float32 has 24; the
arithmetic depends on the sizes only through their distance from the mantissa.
`MayFail` and `ChecksMayFail` switch failures and crashes on. Requests are
symmetric except in the runs with a liveness property, which use no symmetry.

Fairness. `Handlers` and `ConfigMapClients`: weak fairness of the steps of each
request that are not failures. A goroutine that can go on is eventually
scheduled, an API call that does not fail is eventually answered, the 10 s timer
of the poll fires. `Procedures`: weak fairness of the function and its goroutine
running on; a stream does not hang. No failure is ever forced to happen, and
nothing is assumed about clients, the clock, crashes, endpoints or pods.

## Properties

With any number of concurrent requests: `AnswersAreTrue` (what an answer says
was true at some moment of the request; the copy a 202 stands for is one of what
the PUT had read, which another PUT may have replaced meanwhile),
`ContentsAreGenuine` and
`TemplatesAreGenuine` (stale copies may bring back old content, never foreign
content), `VersionsAreBounded`, `InForceIsValid` (invalid rules come into force
only through a shared temporary file), `UnsharedVerdictsAreRight`,
`FilesAreAccountedFor`, `EveryRequestEnds`.

One request at a time, with failures and crashes: `AnswersHoldNow`,
`AreVersionedFiles` and `IsVersionedFileAlone` (the endpoints implement
`VersionedFiles`: `current` and `archive` are the two maps seen per file),
`VersionsLeaveOnlyByPolicy`, `OnlyOwnFileChanges`, `IsTemplateStoreAlone`, and for
the configuration `NewestVersionUndoes`. They are not claimed when requests
overlap: no operation protects its reads, so whatever relates a write to an
earlier read needs the requests to be sequential. The properties with "Alone" in
their name speak of the part of a behaviour before the first overlap.

`NewestVersionUndoes` is checked for the configuration and proved for both
(`RulesUndoneByNewest`): a DELETE of rules that failed after its first update
leaves versions without a file, but a PUT that finds no file saves none and
promises nothing of them.

Of the functions by themselves: `ResultsAreEarned` (a wait reports no success it
did not see and gives up only after all attempts), `LimitsHold`,
`DocumentedNamesWork` (the names helper.go:472 allows can be stored),
`ReservedPartsAreKept`, `EveryFunctionReturns`. Of the pod restart, the copying and
the startup only the last is claimed: what their comments promise beyond it does
not hold (finding 6 and the list below).

## Findings

1. *Lost backup.* router.go:142 promises a copy "prior to replacement". Two
   concurrent PUTs both save the content they read; the second replaces the
   first one's body, of which there is no copy. The configuration loses versions
   the same way (router.go:55).
2. *Undone delete.* router.go:167 says a DELETE "cannot be undone". A concurrent
   PUT of another file undoes it.
3. *Prefix names.* helper.go:400 speaks of keys that match a file name; the code
   takes every key that begins with it, so `a.rules` owns the versions of
   `a.rules-b.rules` too.
4. *Invalid rules accepted.* prometheushandler.go:342 validates with promtool;
   two PUTs that draw the same of 32 temporary names may check each other's body.
5. *Empty configuration.* A PUT to an empty `prometheus-config` stores an empty
   version and then panics at prometheusconfighandler.go:201, so the
   configuration cannot be put there through the API; router.go:55 promises that
   "the user-provided content will replace the current" one.
6. *Pods not restarted.* helper.go:729 promises "deleting all pods"; deletePods
   returns after the first it deleted.

The common root of 1 and 2: `updateConfigMapByName` fetches a fresh resource
version immediately before its update, which disarms the API server's conflict
check for the handler's read.

### Disagreements the models contain and no run is spent on

The models behave as the code does in these cases; no property asks for the
contrary.

- Two backups of one file within the same second share a key: the later one
  overwrites the earlier (prometheushandler.go:380; line 389 wants ten kept).
- After a DELETE that removed the file and failed to remove its versions, every
  further DELETE answers 404 and the versions stay (prometheushandler.go:257).
- The rules handler panics when there is no temporary file: it logs the name of
  the nil file (prometheushandler.go:466). `CheckedRules!TurnDown`.
- A template accepted concurrently with another one may be lost
  (alertmanagertemplateshandler.go:168); GET answers 400 for a missing template
  where a comment speaks of 404 (lines 62, 150).
- A scrape job without a name makes the configuration check panic
  (prometheusconfighandler.go:240). `DocumentChecks!ConfigVerdict`.
- An empty list of groups is accepted (prometheushandler.go:453).
- A rule file with a name of 234 to 253 characters can be created but not
  replaced (prometheushandler.go:380).
- helper.go:472 says that names contain only letters, digits, `-` and `_`. The
  expression of `validateName` is not anchored, and the suffix satisfies it: a name
  with a dot (`a.b.rules`) is stored, and one with other characters, or with ".." at
  its beginning, passes the check and is refused by the API server.
- makeTar's error goes no further than the log of its goroutine, which closes the
  pipe as after a success (helper.go:560): the pod unpacks a shorter archive, and
  copyFile, which "copies the given data" (line 546), reports success.
  `CopyFile!MakeTarFails`.
- Retry returns the error of an early attempt after a later one succeeded
  (helper.go:195).
- copyFile leaves its goroutine waiting for ever when the stream fails early
  (helper.go:582).
- A size whose double exceeds the maximum is refused where helper.go:257 says
  "limited"; with a VMI that cannot be read the default limits apply (line 274).
- The server's own flags end the program, as main parses the command line before
  they are registered (main.go:34). Makefile:41 and with it README.md:33 start it
  with them, and `kubeconfig` is "Only required if out-of-cluster" (config.go:29),
  where it cannot be given. `Startup!Parse`.
- getConfigMapByPath panics when the VMI does not name the ConfigMap (it uses the
  nil result of a failed search, helper.go:351). `Handlers!ReadFails` answers 500 or
  not at all.
- deletePods ignores failures altogether (helper.go:820): when all deletions fail,
  the restart reports success too.

## Proofs

### The store

`ConfigMapProofs`, for all sets of requests, maps, keys and values, assuming
only that there is a map name and that `None` is not a value
(`StoreAssumption`) and that the initial contents are contents
(`InitialAssumption`):

- `TypeCorrect`: `Spec => []StoreTypeOK`. By `StepFacts`: a step of a request
  changes only its own call, and the store only by the accepted PUT.
- `TimeoutsAreGenuine`: `Spec => []TimeoutMeansInterference`. With the types the
  property is inductive: a call whose update was accepted either still owns the
  current version, and then the map holds its content, or the version is
  higher. `VersionsGrow` carries it over the steps of other requests, `OwnStep`
  over the call's own: a poll that misses excludes the first case.
- `Refinement`: `Spec => IsVerifiedWrite`. `StepRefines` maps each step to a step
  of `VerifiedWrite` (`Ask`, `Write`, `Confirm`, `Refuse`) or, for the GET and a
  missed poll, to a stutter.

### The endpoints

For any number of requests, concurrent or not, any files, bodies, limits, clock
bound and prefix relation, with failures and crashes, and for the rules and the
configuration alike:

| Property | Rules | Configuration |
|---|---|---|
| `[]TypeOK` | `RulesTypeCorrect` | `ConfigTypeCorrect` |
| `[]ContentsAreGenuine` | `RulesAreGenuine` | `ConfigIsGenuine` |
| `[]VersionsAreBounded` | `RulesVersionsAreBounded` | `ConfigVersionsAreBounded` |
| `AnswersAreTrue` | `RulesAnswersAreTrue` | `ConfigAnswersAreTrue` |

They assume what the modules state of their constants: `StoreAssumption`,
`VersionsAssumption` (keys are files and version keys), `FilesAssumption`
(finitely many files), `HandlersAssumption` (two different maps; the initial
contents keep files and versions apart), and `RulesAssumption` (a rule file is never the empty
text) or `ConfigAssumption` (one file, no DELETE, no list). `Init` starts the server at any
time, with any number of versions per file, provided that they are as earlier
requests leave them: within the limits and not from the future (`Limited`).

`TypeOK` is not inductive: a map keeps its kind of key only if every copy a
handler will write back has it. `HandlerLemmas!TypeInv` adds that: `Types` gives
the copies `cur` and `sav` the shapes of the maps they were read from, `Shapes`
gives the stored maps and the contents on their way to them theirs, and
`Positions` ties where a handler stands to the kind of its request, so that an
update in progress belongs to the handler that asked for it.

`ContentsAreGenuine` speaks of the store and the answers; what makes it true is
that nothing foreign is ever in a private copy. `GenuineInv` is `TypeInv` with,
per file, `Stores` (what the two maps hold was served, as a current content or as
a version), `Sources` (what was served was there at first or was put), and per
request `Returned` (what a GET returned was served), `Copies` (so was whatever a
copy holds) and `Asked` (an update on its way holds what was served, or the
body its own request put). One lemma per kind of step (an answer, a copy, a
request for an update, a step of the update, arrival, crash) shows that it is preserved; the
two proof modules then go through the actions of their `Next`.

`VersionsAreBounded` says that a version with as many younger ones as are kept is
not older than any of them by the age limit. No two handlers agree on what the
versions map holds, and each may write back a copy older than the last pruning:
the property holds because every content of that map is within the limits
wherever it is. `BoundedInv` is `TypeInv` with `Limited` (the property, and that
no version is from the future) for the stored map, for every private copy `sav`
and for every content on its way to the store. A larger `now` and fewer versions
keep it (`FewerVersions`), and `PrunedIsLimited`, the heart, shows that saving a
version and pruning restores it: beyond the number kept, only young ones remain.

`AnswersAreTrue` speaks of the history `witnessed`: what was true of the store at
some moment of the request. `TruthInv` is `TypeInv` with `Evidence` per request:
what its handler will conclude from where it stands has been witnessed. A copy
taken while the request ran is evidence of what it holds; an update that returned
"ok" is evidence that the map held its content (`SuccessIsSeen`), and that
content follows from the request: the new body under the file's key, the old one
under a version key the pruning spared (`SavedIsSpared`), no key of the deleted
file. For the rules `Found` adds that only a file that was found is backed up;
the configuration backs up a missing one too, and panics before it can say so.

### The endpoints, one request at a time

For any files, bodies, limits and clock bound, with failures and crashes at any
step of the one request in progress:

| Property | Rules | Configuration |
|---|---|---|
| implements `VersionedFiles` | `RulesAreVersionedFiles` | `ConfigIsVersionedFile` (while alone) |
| the newest version undoes a PUT | `RulesUndoneByNewest` | `ConfigUndoneByNewest` (while alone) |
| `AnswersHoldNow` | `RulesAnswersHoldNow` | `ConfigAnswersHoldNow` |
| `BackupBeforeReplace` | `RulesAreSavedFirst` | `ConfigIsSavedFirst` |
| `VersionsLeaveOnlyByPolicy` | `RulesVersionsLeaveByPolicy` | `ConfigVersionsLeaveByPolicy` |
| `OnlyOwnFileChanges` | `RulesChangeOwnFileOnly` | (there is one file) |

Two hypotheses come in, and the runs show that neither can be dropped.
`MaxInflight = 1` lets the next request in only when the one before is over; where
the table says "while alone", the history `alone` says the same of a beginning of
the behaviour, which is more. With two requests `BackupBeforeReplace` fails (`rules_lost_backup`).
`NoPrefixes` (no file name begins with another one) is needed wherever the
pruning and the deletion of versions must not touch another file's
(`rules_prefix_name`): by `RulesAreVersionedFiles`, `RulesVersionsLeaveByPolicy`
and `RulesChangeOwnFileOnly`, and not by the other three. The configuration has
one file, so that it holds by itself (`OneFile`). `ConfigIsVersionedFile` says
nothing of steps without a configuration, for there the code saves the empty text
as a version of nothing and panics (finding 5).

The invariant is `HandlerLemmas!FreshInv`: `BoundedInv`, one request in flight, and
`Fresh` of it. `Fresh` says, for every line its handler may have reached, that its
private copies equal the two maps (`cur`, and `sav` where it is still to be used),
what the update it asked for will write, that a waiting update finds its map
as the handler read it, and that one that returned "ok" left it so. A
failed call is why the phase of the call is in it: after
a lost answer the map may hold the new content or the old, and the handler then
gives up. `BackupFresh` and `BackupIsNewest` carry the age of the versions along:
what a PUT saves is the youngest version of its file when it replaces it.

From there the properties need no more of the handlers than what their steps do to
the store. `Writes` lists it: save and prune (`Saves`), replace what is saved
(`Replaces`), remove (`Removes`), purge what has no file (`Purges`).
`UpdateWrites` and `NextWrites` show that each step is one of these or leaves the
store alone; `ChangesRefine` maps each to a step of `VersionedFiles`, and
`WritesSaved`, `WritesLeave` (by `PrunedByPolicy`) and `WritesOwnFile` derive the
action properties. `NextHolds` does the answers, with the evidence of `TruthInv`
replaced by the copies' being fresh.

### The temporary files

`CheckedRulesProofs`, first part, for any number of checks, names and bodies, assuming
`TempFilesAssumption` (the marks for empty and mixed texts are no bodies):
`VerdictsAreRight` (`TempSpec => []UnsharedVerdictsAreRight`) and
`NoFileStaysBehind` (`TempSpec => []FilesAreAccountedFor`).

`TempInv` adds to the types: `References` (a name, and an open file, refers to a
file that was created under that name: files never change their name, so checks
under different names cannot touch the same file), `SharersKnown` (two checks
that use one name at once know each other, because each records the users it
finds and is recorded by those that come later) and `Undisturbed` (what a check
without sharers finds is what it left: an empty file after creating, its own body
after writing). `StepUndisturbed` is the heart: whatever another check does, it
does to another name, or it becomes a sharer.

### The validated rules

The second part puts the two together, under the additional
`CheckedAssumption` (the checks fail only where anything may fail).
`ChecksFitTheHandlers` (`CheckedSpec => Spec`) shows that the composition does
nothing that the free choice of `PrometheusRules` does not cover, and
`HandlersFitTheChecks` (`CheckedSpec => TempSpec`) that it runs the checks as
`TempFiles` says; `CheckedRulesKeepPromises` collects what the composition
inherits from both. `OnlyValidInForce` (`CheckedSpec => []InForceIsValid`) is
about neither part alone. `CheckedInv` is `GenuineInv` and `TempInv` with
`Linked` (a check has the body of the PUT it belongs to, and a PUT that has gone
on was told "valid") and `Vouched` (what was ever served was there at the start or
was put by a request that was told "valid"): so invalid rules in force lead back to a
wrong verdict, and that, by `TempInv`, to a shared name.

### The templates

`TemplateProofs`, for any requests, names and bodies: `TemplatesTypeCorrect`
(`Spec => []TypeOK`) and `TemplatesStayGenuine` (`Spec => []TemplatesAreGenuine`).
Its `GenuineInv` adds to the types that the history records what the store holds
(`Recorded`) and explains it by a request or the start (`Explained`), that an
update on its way holds only explained bodies (`Sent`: it is the whole map read
earlier with one key changed) and that so does what a GET returned (`Told`).

`TemplatesAreAStore` (`AloneSpec => IsTemplateStoreAlone`) is the refinement of
`TemplateStore`, while requests come one by one. `FreshInv` says there that an update
which waits to be applied differs from the map as it is by one template
(`OneChange`); a crash, a panic or a lost answer drops the call or applies it
whole.

### The functions by themselves

`ProcedureProofs` proves the four invariants of the run `procedures` for all
values of the constants: any number of attempts and jobs, any sizes and limits,
names of any length. `OneFunction` says that a step belongs
to the function that was called, so that each has an invariant of its own.

| Theorem | Invariant | What it adds |
|---|---|---|
| `WaitsAreEarned` | `WaitInv` | The attempts so far were without success, as many as the schedule has lost, and `lastErr` tells whether one met an error. |
| `LimitsAreKept` | `SizeInv` | What was read of the VMI is what it says or nothing; the new size comes from a size that was read and passed the limits that were. |
| `DocumentedNamesAreStored` | `NameInv` | How often the name was stored, by where the second PUT stands, and that a name stored once is no longer than a key may be; `KeyFacts` says which keys the API server takes. |
| `ReservedPartsStay` | `DocInv` | The result is the verdict on the document; `VerdictFacts` says what the loop over the reserved jobs comes to. |

`LimitsAreKept` needs that the way through a float keeps the direction of the
change (`ResizedTheRightWay`), and for that, that powers of two are positive integers and that every
size lies in the range of one of the units. Both follow from `SizingAssumption` by
induction on the exponent, which the provers cannot do; `StorageSizing` states
them as `UnitsAssumption`, and TLC evaluates it for the instance. The rest
(`Quotient`, `UlpFacts`, `ToFloatFacts`) is proved: a float differs from its size
by half a unit at most and is the size itself where the unit is 1 or the size; any
other size is larger than its unit, so that half of the float is smaller and twice
the float larger than the size.

### Only model-checked

Liveness, which is out of the reach of the proof system here (it does not reason about
fairness and ENABLED): `EveryCallReturns`, `EveryRequestEnds`,
`EveryFunctionReturns`. Every other property of a passing run is stated by a
theorem. The properties of the violation runs are false of the code, except where
a theorem above has the hypothesis that makes them true.

## Plan

1. `NoPrefixes` concerns a pair of names. A theorem about one file, that no other name
   begins with it and that it begins with no other, would say more about
   installations in which some names clash.
2. `PutTakesEffect` where there is a configuration: that an accepted body is
   answered 500 only after a failed call or an interfering update.

## Not modelled

- An API call that takes effect after its caller has given up on it, or after the
  server has crashed: a lost answer is modelled, a late effect is not.
- The checks of the configuration in `CheckedRules`: they draw from the same 32
  temporary names as those of the rules. `TempFiles`, and what is proved of it, is
  about checks of any kind; the composition has those of the rules only, to which
  a check of the configuration would be one more that may share a name.
- Secrets: `updateSecretByName` is `updateConfigMapByName` statement for
  statement with another type of object, and nothing calls it.
- The router, health check, redirects and static files: stateless dispatch by
  path and method. It decides which handlers run; `RequestSet` takes that as given.
- The VMI client: `getVMIJson` is a single call, part of the reads;
  `updateVMIJson` has no caller.
- `ValidateConfigMapKeyName`, `within`, `getNodeIPs`, `deleteFile`, `deletePod`, `getReadyPodsByLabel`: one
  API call or none, no caller but tests.
- Of the startup, the namespace, the NAT gateway addresses, the OCI file, the debug level and
  the logger, which do not decide where the start ends up.
