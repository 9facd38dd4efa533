# Verification of the peer probing monitor and the vote-password selection

This directory holds the TLA+ models of the repository's Go code. It also holds
the TLC configurations that check the models on small instances, and the TLAPS
proofs of their main safety properties for every value of the constants.

## 1. The system

The repository holds two pieces of Go that do not interact.

* `src/vendor/github.com/coreos/etcd/etcdserver/api/rafthttp/probing_status.go`
  is the **probe registry and health monitor** of a peer transport.
  * `addPeerToProber(lg, p, id, us)` suffixes each peer address with
    `ProbingPrefix` and calls `p.AddHTTP`, ignoring the error it returns. It
    then asks `p.Status(id)` for the status object. If that fails, it warns and
    returns. Otherwise it starts `go monitorProbingStatus(lg, s, id)`.
  * `monitorProbingStatus` loops. It first waits 5 s (`statusErrorInterval`).
    In each iteration a `select` races `time.After(interval)` against
    `s.StopNotify()`. The stop channel is closed when the prober removes the
    peer, and the monitor then returns.
  * When the timer wins, the monitor reads `s.Health()`. If the peer is
    unhealthy it logs a warning that carries `s.SRTT()` and `s.Err()`, and
    the next interval is 5 s; otherwise it is 30 s.
  * It then compares `s.ClockDiff() > time.Second`. If that holds, it logs a
    drift warning.
  * Last, it observes `s.SRTT()` in the `rttSec` metric.
  * Each getter takes the status lock on its own. The prober's goroutine
    updates the status between any two reads.

  The probing library (`github.com/xiang90/probing`) is not part of the
  repository. `AddHTTP`, `Status`, `Remove` and the probe results are
  modelled from the specification (`spec_modelled` in PROJECT.json).
* `src/cmd/geth/passwords.go` chooses **where the vote-account password comes
  from**.
  * `usingVaultPassword` counts the password flags that are set. Exactly one
    selects the command line. None, with all four Vault flags present, selects
    Vault. Anything else ends the process with `utils.Fatalf`.
  * `fetchPasswordFromCLI` returns the first set flag.
  * `fetchPasswordFromVault` checks the decision again, then logs in to Vault
    over AWS IAM (`loginAws`, `getIAMRole`) and reads the secret.
* `src/unnamed/part_000` is an earlier draft of `passwords.go` that does not
  compile. `src/README.md` is documentation. Neither is modelled.

### Inventory

| component | state | operations | hard behaviours |
|---|---|---|---|
| probe registry | the prober's map peer → probe; per probe its status and stop channel | AddHTTP, Status (+ warn, + spawn), Remove | Remove between AddHTTP and Status; re-registering a peer already probed; AddHTTP's error ignored |
| prober status | health, srtt, err, clock difference per probe | probe success, probe failure (library goroutine) | updates between the monitor's reads |
| health monitor | per goroutine: its handle, program counter, `interval`, what the current iteration has logged | select (timer / stop), health read, unhealthy warning, drift check, drift warning, RTT metric | torn reads; timer racing stop; signed drift comparison; swapped zap fields; re-read on the plog path; termination after stop |
| password selection | the CLI context, the outcome | fetchPassword, fetchPasswordFromCLI, fetchPasswordFromVault (entry) | preallocated slices counted as set flags |
| vault retrieval | Vault client, token, secret | login, read, extract | unreachable (see findings); network I/O |

## 2. Modules

### `ProbingStatus.tla`: registry, prober status and monitors

**Constants**
* `Peers`, `Addrs`, `Errs`, `RTTs` and `Skews` are the data.
* `Threshold` stands for `time.Second`.
* `MaxProbes` bounds the probe handles that are ever created: the probe of
  a removed and re-added peer is a new handle.
* `MaxRegs` bounds the calls of `addPeerToProber`. Goroutine `g` is the one
  the `g`-th call starts, if it starts one.
* `MaxAddrs` bounds the address lists.
* `UseZap` chooses between the `lg != nil` branch and the `plog` branch.

**State**
* Prober: `probe[p]` is the peer's current handle, or `NoProbe`.
  `nProbes` counts the handles created so far. Per handle, `status` and
  `stopped` (the stop channel is closed).
* Registration: `reg[p]` is `Idle`, or the goroutine id of the
  `addPeerToProber` call for `p` that is between AddHTTP and Status.
  `nRegs` counts the calls. `regWarned[p]` is set when Status failed.
* Monitors: `mon[g]` is goroutine `g`: the handle `h` it was started on
  (the `s` of line 50), its program counter, `interval`, and `log`, the
  warnings and metric observations of the current iteration.

**Actions**
Each action is one step of the code, between two points where another
goroutine can run.
* `AddHTTP(p, us)`: lines 32-38. The library returns `ErrExist` for a
  peer it already probes and rejects an empty list; both leave the prober
  unchanged, and line 38 ignores the error. Otherwise a new handle is
  created. The address suffixing (33-36) is abstracted: no property tells
  addresses apart. The guard `reg[p] = Idle` is the caller's discipline
  (spec 6: the membership manager calls it once per newly known peer), not
  a line of the code: two calls for one peer are not overlapped.
* `StatusAndSpawn(p)`: lines 40-51. Status returns the peer's current
  handle, whichever call created it; then the warning, or the spawn of the
  call's goroutine on that handle. The goroutine's first statement
  (line 55) is in `NotStarted`.
* `Remove(p)`, `ProbeSuccess`, `ProbeFailure`: the library, from the
  specification.
* `EnterSelect`, `TimerFires`, `StopNotified`: the `select` at lines 57-58
  and 89-90. In `wait` the select is undecided: the goroutine is parked on
  both channels, and Go's runtime resolves the select with whichever channel
  becomes ready first.
  * A stop channel closed before or during the wait therefore always wins.
    `TimerFires` requires the channel to be open.
  * A `Remove` that comes after the timer has fired does not interrupt the
    iteration in progress. The goroutine finishes that iteration, with its
    warnings and RTT observation, and returns at the next select.
* `ReadHealth` (59, 71-73), `WarnUnhealthy` (60-70), `ReadClockDiff` (74),
  `WarnDrift` (75-86), `ObserveRTT` (87). Each reads the status at the
  moment it runs, so a probe result can land between two of them.
  `WarnDrift` logs SRTT as the drift on the zap path and the re-read
  ClockDiff on the plog path.

### `Passwords.tla`: password source selection

`UsingVaultPassword(c)` is the whole decision of lines 77-114, including the
three empty entries `make([]string, 3)` puts in both slices.
* `FetchPassword` is lines 17-23.
* `FetchPasswordFromCLI` is lines 25-40.
* `FetchPasswordFromVault` is the entry check of lines 42-43 and 71-74. The
  Vault I/O after it is a terminal `vaultLogin` state.

The context is chosen in `Init` from every combination of set and empty
flags.

### MC modules

`MCProbingStatus.tla` and `MCPasswords.tla` define the model values and the
small sets the configurations use.

## 3. Runs

| run | cfg | what it shows |
|---|---|---|
| probing_safety | MCProbingStatus.cfg | `TypeOK`, `EveryProbeMonitored` |
| probing_stop_liveness | MCProbingLiveness.cfg | `StopEventuallyExits`, `MonitorKeepsReporting` |
| probing_duplicate_monitor | MC_OneMonitorPerHandle.cfg | violation: a re-registration starts a second monitor on one handle |
| probing_torn_unhealthy_read | MC_UnhealthyWarningCarriesError.cfg | violation: an unhealthy warning with a nil error |
| probing_negative_skew | MC_DriftWarnedWhenSkewHigh.cfg | violation: a skew of −2 s passes without a warning |
| probing_drift_fields | MC_DriftWarningReportsSkew.cfg | violation: the zap drift warning reports SRTT as the drift |
| probing_drift_reread | MC_DriftWarningReread.cfg | violation: the plog drift warning reports a re-read skew below the threshold |
| passwords_single_flag | MCPasswordsSingleFlag.cfg | violation: one password flag ends in "Too many password flags" |

**Properties**
* `EveryProbeMonitored`: once its `addPeerToProber` call has returned,
  every peer the prober probes has a monitor goroutine running on its
  current handle. Removal racing registration, re-registration and probe
  updates are all in the run; the property needs the monitor never to
  return except through the stop case.
* `StopEventuallyExits`: a running monitor whose handle is stopped
  eventually returns.
* `MonitorKeepsReporting`: a running monitor whose handle is open
  eventually reaches its RTT observation again, unless the handle is
  stopped. This is the code's side of spec 6, "one observation per monitor
  iteration".
* `OneMonitorPerHandle` (violation run): no two running goroutines share a
  handle, as spec 2 and 4.1 promise ("spawns exactly one monitor task bound
  to that handle").
* `UnhealthyWarningCarriesError`, `DriftWarnedWhenSkewHigh`,
  `DriftWarningReportsSkew` (violation runs): what spec 3, 6 and 8 say the
  warnings carry.

**Bounds**
* The safety run has two peers, two handles and three registrations. One
  peer can be removed and registered again, or registered twice, while the
  other is registered concurrently. Symmetry on the peers is sound: no
  definition distinguishes them. It reaches 334,390 distinct states.
* One address and one RTT value suffice, because the properties never look
  at the value of either. The safety run takes the skew 0 only, since
  `EveryProbeMonitored` does not depend on the drift branch; the liveness
  run takes skews {0, 2} around a threshold of 1, so both branches of
  line 74 are taken. The drift-sign run adds −2.
* The liveness run uses one peer, two handles and two registrations, so the
  peer can be removed and registered again or registered twice.
* Every run disables deadlock checking: once every registration is made
  and every peer removed, every goroutine has returned and nothing is left
  to run. This is a real quiescent state, not a blocked one.

**Fairness**
* Weak fairness of each monitor goroutine's steps. A goroutine that is
  ready to run is eventually scheduled, and a `time.After` timer eventually
  fires.
* Weak fairness of `StatusAndSpawn`. It is the next statement of the
  goroutine that called AddHTTP.
* The prober and the callers (AddHTTP, Remove, probe results) get no
  fairness. Nothing in this code forces them to act.

**Mutants**
Each property of a passing run is broken by one plausible bug:
* a failure recorded with a nil error (`TypeOK`);
* a health branch that returns when the peer is unhealthy
  (`EveryProbeMonitored`, `MonitorKeepsReporting`);
* a timer case that wins even over a closed stop channel
  (`StopEventuallyExits`).

## 4. Findings

1. **Second monitor on re-registration** (probing_status.go:38). AddHTTP's
   error is ignored. For a peer already probed it is `ErrExist`; Status
   then returns the existing handle and line 50 starts a second goroutine
   on it. Both poll the handle, doubling its warnings and RTT observations,
   until it is stopped. Spec 4.1 says registration creates or replaces the
   probe and spawns exactly one monitor.
2. **Torn read** (probing_status.go:59/65). `Health()` and `Err()` are
   separate reads, so an unhealthy warning can carry a nil error.
3. **Signed drift comparison** (probing_status.go:74). A negative clock
   difference, a peer whose clock is ahead of the local one, is never
   reported.
4. **Swapped zap fields** (probing_status.go:79-80). `clock-drift` gets
   SRTT and `rtt` gets the clock difference.
5. **Stale re-read on the plog path** (probing_status.go:84). The warning
   prints `s.ClockDiff()` read again after the comparison at line 74, so a
   probe result in between makes it report a skew at or below the
   threshold.
6. **Preallocated flag slices** (passwords.go:83). `len(setPassFlags)` is
   never 1, so `fetchPassword` always exits with "Too many password flags".
   The Vault code is therefore unreachable. This is also why Passwords has
   no passing run: no action after the first step can fire.

## 5. Proofs (`ProbingStatusProofs.tla`, `PasswordsProofs.tla`)

The proofs assume `ProbingAssumption`:
* the sets of peers, errors, RTTs and skews are non-empty;
* `NoErr` is not an error;
* the bounds are naturals, and `MaxProbes` is positive.

**Type correctness.** `TypeCorrect: Spec => []TypeOK`, from `TypeInit` and
`TypeStep`. The step proof takes one case per action. `TypeOK` includes
that a started goroutine is bound to a created handle, which is what makes
`Stat(g)` a valid status. `MonitorFrame` says what a monitor step leaves
alone, and `MonitorTyped` covers its record updates.

**Every probe is monitored.** `ProbesMonitored: Spec => []EveryProbeMonitored`
follows from the inductive invariant `ProbeInv` (`ProbeInvariant`). It
conjoins `TypeOK` with three facts:
* `FreshUnused`: a handle not yet created is not stopped, and a goroutine
  id no call has reached is not started;
* `RegSlotFree`: a call between AddHTTP and Status owns a goroutine id that
  no other peer's call holds and that is not started;
* `CurrentProbeLive`: a peer's current handle is open, is no other peer's,
  and is monitored unless the peer's call is between AddHTTP and Status.

`EveryProbeMonitored` alone is not inductive.
* Without `RegSlotFree`, the spawn in `StatusAndSpawn` could overwrite a
  running goroutine that monitors another peer.
* Without `CurrentProbeLive`'s "open" and "no other peer's", `Remove` of one
  peer could stop the handle another peer's monitor needs, and a monitor
  could return on the stop of a handle that is still current.
* Without `FreshUnused`, AddHTTP could hand out a handle that is already
  stopped.

The lemmas `AddHTTPStep`, `StatusAndSpawnStep`, `RemoveStep`,
`StatusOnlyStep` (the probe results) and `MonitorStep` give one step per
action, and under each one step per conjunct it can disturb. TLC checked
`ProbeInv` on the safety instance before it was proved.

**Passwords** (`PasswordsProofs.tla`, no assumption on `Secrets`).
`AlwaysFatal: Spec => []AlwaysTooManyFlags` proves finding 6 for every set
of secrets and every command line. `fetchPassword` is either still
deciding or has exited with "Too many password flags". It never returns a
password and never reaches Vault.
* `SetFlagsCounted`: the number of set flags is a natural number. It is
  the cardinality of a subset of `1..3` (`FS_Interval`, `FS_Subset`,
  `FS_CardinalityType`).
* `DecisionAlwaysFatal`: hence `len(setPassFlags) = 3 + n` is positive
  and not 1, so `UsingVaultPassword` is the Fatalf of line 93.
* The invariant is inductive as it stands.

`UsingVaultPassword` and `FetchPasswordFromVault` are nested IF chains in
the order of the Go `if`/`else`. An earlier CASE form had overlapping
guards. TLC takes the first true arm, but the TLA+ meaning of such a CASE
is an arbitrary true arm, so the proof could not rely on the order.

**Only model-checked**
* `StopEventuallyExits` and `MonitorKeepsReporting`: TLAPS does not prove
  liveness, nor reason about `ENABLED`.
* The violation runs.
* What the Passwords selection would do with the intended allocation
  (`make([]string, 0)`), which is not modelled.

## 6. Not modelled, and why

* **The Vault retrieval** (`passwords.go` lines 44-70, `getIAMRole`,
  `loginAws`, lines 116-163). `usingVaultPassword` never returns true (see
  finding 6), so none of this code runs. It is also network I/O against
  Vault and the EC2 metadata service; a model of it would have no
  reachable state to check.
* **The address suffixing** of `addPeerToProber` (lines 33-36): string
  concatenation that no property depends on.
* **The probing library's own timing** (`proberInterval`, the SRTT
  average). Only the order of its status updates against the monitor's
  reads matters to the properties.
* **`src/unnamed/part_000`**: it does not compile.

## 7. Plan for later sittings

1. An abstract monitor that reads the status as one atomic snapshot, and a
   refinement check of the detailed module against it, which the torn
   reads of findings 2 and 5 are expected to break.
2. A Passwords model with the intended allocation (`make([]string, 0)`),
   checked against a reference decision function, with the proof of
   `PasswordsProofs.tla` redone for the decision of every context.
