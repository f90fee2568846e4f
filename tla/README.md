# TLA+ verification of gcosmos

This directory holds TLA+ models of the gcosmos consensus-strategy core,
its server component and its debug gRPC server. Each model is checked with
TLC on small instances. TLAPS proves theorems about the models for every
value of their constants.

## The system

gcosmos plugs the Gordian BFT engine into a Cosmos SDK application. The
code in `src/` consists of these parts:

| Part | Source | What it does |
|---|---|---|
| ConsensusStrategy | `gserver/internal/gsi/consensusstrategy.go` | The engine's hooks. `EnterRound` records the round and, on the proposer, builds the proposal: batch from the tx buffer, `Provide` the data, mark it locally available, hand the proposal to the engine. `ConsiderProposedBlocks`/`ChooseProposedBlock` pick the first acceptable proposed header: round and data-ID checks, retrieval through the request cache, chained simulation, annotation time. `DecidePrecommit` applies the Byzantine-majority threshold. `DefaultProposerSelection` rotates proposers. |
| Server component | `gcosmos/gserver/component.go` | `Init` reads flags and may open the HTTP listener. `Start` creates the libp2p host, the connection, the driver, the gossip strategy, the watchdog, the engine and the HTTP server. `Stop` cancels and waits for those it keeps in fields. The `seed` subcommand runs a libp2p host and DHT peer that validators discover each other through. |
| Debug gRPC server | `unnamed/part_000` (package ggrpc) | `SubmitTransaction` validates a tx and adds it to the shared buffer. `QueryTx` loads a committed tx. The other handlers only read. |
| App config, CLI, generator, tests, patches | `unnamed/part_001`, `internal/gci/command.go`, `gsbd/dataid_generate.go`, `main_test.go`, `_cosmosvendor/patches` | Setup, wiring and build tooling. |

Several collaborators are not in this repository: the engine, the request
cache, the retriever, the provider, the tx buffer and the driver. They are
modelled from `spec.md` as the environment. Those definitions are marked
`spec_modelled` in `PROJECT.json`.

How the parts interact:

- The engine calls `EnterRound` once per round.
- It calls `ChooseProposedBlock` repeatedly until the call returns a hash.
- Background fetches fill the request cache in between.
- The gRPC server and the strategy share the tx buffer.
- `Stop` tears down what `Start` built.

## Modules

| Module | Models | State | Actions |
|---|---|---|---|
| `ProposerSelection` | `DefaultProposerSelection` (54-61) | — (operators) | `ProposerIdx`: Go `int` conversion, wrapping `+`, truncating `%`, on a word scaled to `MaxInt` |
| `ConsensusStrategy` | `EnterRound`, `ConsiderProposedBlocks`, `ChooseProposedBlock`, `SubmitTransaction`, and the engine/cache/clock environment | `eh, er` (engine round), `curH, curR` (strategy fields), `phs` (round view), `choice`, `cache` (request cache), `txBuf`, `headers`, `provided`, `retrieved`, `now`, `restarts` | `NewRound`, `ReEnterRound` (both call `EnterRound`), `ChooseProposedBlock`, `Deliver`, `FetchComplete`, `SubmitTransaction`, `ByzPropose`, `Restart`, `Tick` |
| `ConsensusStrategyProofs` | proofs | — | — |
| `MC_ConsensusStrategy` | instances | — | — |
| `PrecommitDecision` | `DecidePrecommit` (405-416), `ByzantineMajority` | — (operators) | — |
| `PrecommitRound` | one round of prevotes around `DecidePrecommit` | `prevote`, `byzSent`, `seen`, `precommit` | `Prevote`, `Receive`, `ByzPrevote`, `Precommit` |
| `PrecommitRoundProofs` | `PInv` and the agreement proof | — | — |
| `ComponentLifecycle` | `Init`, `Start`, `Stop` of component.go | `phase`, `lnOpen`, `httpLn`, `live`, `ref`, `rootCancelled`, `ctxCancelled`, `stopPc` | `ComponentInit`, `Start(k)`, the Stop steps (`StopCancel`, `StopWait`, `StopClose`), `CancelStartCtx`, `Exit(r)` |
| `ComponentLifecycleProofs` | the strengthening `LInv` and the proofs of `FieldsReleased` and `ReleaseAfterExit` | — | — |
| `GRPCServer` | `SubmitTransaction`, `QueryTx` | `txBuf`, `committed`, `crashed` | `SubmitTransaction`, `QueryTx`, `FinalizeBlock` |
| `StrategyContract` | what the strategy promises the engine (abstract) | `round`, `headers`, `chosen`, `now` | `Enter`, `Resume`, `Choose`, `Forget`, `FaultyPropose`, `Advance` |
| `StrategyRefinement` | the refinement mapping from `ConsensusStrategy` to `StrategyContract`, and its proof | — | — |
| `SeedCommand` | `RunE` of the `seed` subcommand (component.go 399-458) | `pc`, `hostUp`, `fileWritten`, `ctxDone`, `interrupted` | `Step(i)` (each call of RunE, with its error return), `Return` (deferred cancel, command ends), `Interrupt` (caller cancels) |

### Correspondence to the code

Each action is the whole handler:

- **Guards** are its early returns.
- **Disjuncts** are its error paths.
- **`\E`** ranges over the outcomes of the calls that may fail: `Provide`, `SendC`, `Simulate`, `Retrieve`, `net.Listen`, `os.WriteFile` and the constructors of `Start`.

**Data abstraction in `ConsensusStrategy`:**

- A block-data ID is the record of the fields its text encodes: height, round and the batch its hash commits to. `ParseDataID` failure is the value `Malformed`.
- A transaction is a model value.
- Simulation is `ValidChain`: `BadTxs` fail on the committed state, and `Conflicts` fail after a given predecessor.
- The annotation time keeps the loss of sub-second precision from RFC3339 formatting (`Claimed`).

**`ChooseProposedBlock` scans the view in order and stops at the first acceptable candidate.** Every cache miss before that candidate is handed to `Retrieve` (the `Retrieval` operator). A failed `Retrieve` or `Simulate` is logged and the scan goes on. This is modelled by the sets `sf` and `rf` of candidates whose call fails.

**Restarts.** The strategy's fields, the request cache, the tx buffer and the provided data are in memory and are lost on `Restart`. The engine's round and round view survive. After a restart the engine calls `EnterRound` again with the round view it kept (`ReEnterRound`). That is the restart case of lines 161-170.

**`Stop` blocks in three `Wait` calls, so it is a sequence of steps (`stopPc`).** The goroutines it waits for exit in steps of their own:

- The engine and the driver exit once the root context is cancelled.
- The HTTP server exits once its listener is closed or Start's ctx is done.
- The gossip strategy (line 199) exits once Start's ctx is done, and the watchdog (line 206) once the root context is cancelled. Start keeps neither in a field (`Orphans`), so `ref` has no entry Stop could look at for them; `Fielded` is the rest.

**The contract.** `StrategyContract` has no cache, buffer, round view or
restart bookkeeping. An honest validator is in a round. As that round's
proposer it may put out one header for it, which must be admissible: well
formed, naming the round, simulating, and not ahead of its own clock. It
settles on at most one admissible proposed header per round. A restart may
make it forget its choice, never its proposal. The refinement mapping
(`StrategyRefinement`) is:

- `round[n]` is the engine's `<<eh[n], er[n]>>`;
- `chosen` is `choice`;
- `headers` and `now` are the model's own.

`NewRound` is `Enter` and `ReEnterRound` is `Resume`. A `ChooseProposedBlock`
that returns a block is `Choose`, and `Restart` is `Forget`. Deliveries,
fetches, submitted transactions and scans that return `""` are stutters.

**Left out:**

- Two `json.Marshal` calls in `EnterRound` cannot fail on the structs they are given. These are the block annotation and the proposal driver annotation.
- A panic ends the process, so it is left out, except in `QueryTx` (see below).
- Formatting and logging.

## Runs

| Run | Config | Expect | Checks | Bounds |
|---|---|---|---|---|
| `byz_candidates` | `MC_Byz.cfg` | pass | `TypeOK`, `ChosenIsSound` | honest `n2`, faulty `b`; height 2, rounds 0-1; five faulty round-0 headers: malformed ID, valid batch, failing second tx, ID naming round 1, time in the future; batches ≤ 2 |
| `honest_restart` | `MC_Honest.cfg` | pass | `ChosenIsSound`, `NoEquivocation` | `n1, n2` honest, `b` faulty; `n1`'s clock one tick ahead; buffer ≤ 2; one restart; time ≤ 2 |
| `honest_liveness` | `MC_Live.cfg` | pass | `HonestProposalEventuallyChosen` (under `LiveSpec`) | as above with batches ≤ 1 |
| `own_data_refetch` | `MC_OwnData.cfg` | violation | `OwnDataNeverFetched` | as `honest_restart` |
| `proposer_overflow` | `MC_ProposerSelection.cfg` | violation | `SelectionIndexInRange` | `MaxInt = 7`, 3 validators |
| `lifecycle_stop` | `MC_Lifecycle.cfg` | pass | `FieldsReleased`, `StopReturns`, `ReleaseAfterExit` (action property) | every Init outcome, every Start failure point |
| `orphans_outlive_stop` | `MC_Orphans.cfg` | violation | `StoppedClean` | as above |
| `listener_leak` | `MC_ListenerLeak.cfg` | violation | `ListenerClosedOnStop` | as above |
| `precommit_agreement` | `MC_PrecommitRound.cfg` | pass | `PrecommitAgreement`, `PInv` | honest `v1` (power 2), `v2` (1), faulty `vb` (1); hashes `x, y` (symmetric) |
| `querytx_panic` | `MC_GRPCServer.cfg` | violation | `QueryNeverCrashes` | two txs, buffer 2 |
| `contract_refinement` | `MC_Refinement.cfg` | pass | `ImplementsContract` (the contract's `Spec` as a `PROPERTY`) | as `honest_restart` (270k states) |
| `seed_exits` | `MC_Seed.cfg` | violation | `SeedServesUntilInterrupted` | every failure point of RunE, an interrupt at any time |

**Why these bounds are enough:**

- One height with two rounds is enough for the proposer to change between rounds, for a faulty validator to propose in one round and an honest one in the other, and for a data ID to name the wrong round.
- Three transactions give every path of the chained simulation: a valid pair, a pair whose second transaction fails only after the first, and a transaction that always fails.
- The one-tick skew makes an honest proposal look future-dated to the other node until time passes.
- One restart reaches the recovery path.
- In `PrecommitRound`, the power of a set is the number of power units its members hold, `Cardinality(PowerUnits(S))`: the same sum as a fold over the set, in a form the prover can reason about.
- In `PrecommitRound`, powers 2/1/1 make the majority 3. A faulty prevote plus `v2` (2) would reach an inclusive threshold but not the strict one. This is exactly the case the threshold must rule out.

**Deadlock checking.** Every model stops at its bounds: the clock, the rounds, the restart budget, the end of Stop, every precommit made. Deadlock checking is therefore off in the runs whose terminal states are legal ends. `MC_Byz.cfg` keeps it on, and TLC finds no deadlock there.

**Fairness.** `LiveSpec` of `ConsensusStrategy` assumes weak fairness on:

- `ChooseProposedBlock(n, {}, {})`, because the engine calls the hook again while it has no choice (spec 2, 4.5), and `Simulate` and `Retrieve` errors are transient;
- `FetchComplete`, because the retriever retries internally (spec 4.4);
- `ReEnterRound`, because the engine re-enters its round after a restart;
- `Tick`.

Round changes, deliveries, faulty proposals and restarts are not forced. `HonestProposalEventuallyChosen` therefore allows the engine to leave the round first.

`ComponentLifecycle` assumes weak fairness on the steps of a Stop already called, and on goroutine exit once its context or listener says so.

## Proofs (TLAPS)

| Theorem | Module | Statement |
|---|---|---|
| `ProposerIdxInRange` | `ProposerSelection` | for `h + r <= MaxInt`, the index is in `0..n-1` and equals `(h + r) % n` |
| `TypeCorrect` | `ConsensusStrategyProofs` | `Spec => []TypeOK` |
| `ChosenIsSoundHolds` | `ConsensusStrategyProofs` | `Spec => []ChosenIsSound` |
| `NoEquivocationHolds` | `ConsensusStrategyProofs` | `Spec => []NoEquivocation` |
| `FieldsReleasedHolds` | `ComponentLifecycleProofs` | `Spec => []FieldsReleased`: whichever step of Start failed, nothing the Component has a field for runs once Stop returns |
| `ReleaseAfterExitHolds` | `ComponentLifecycleProofs` | `Spec => [][ReleaseOrder]_vars`: the connection and host are released only after the engine and driver exit |
| `PInvHolds`, `PrecommitAgreementHolds` | `PrecommitRoundProofs` | `Spec => []PInv`, `Spec => []PrecommitAgreement`, for every validator set and power assignment |
| `EveryValidatorProposes` | `ProposerSelection` | below the overflow bound, every validator is the proposer of one of any `Len(vals)` consecutive rounds |
| `MajoritiesOverlap`, `MajoritiesShareHonest` | `PrecommitDecision` | two `ByzantineMajority` sets of the same power share more than a third of it, hence more than the faulty power |
| `ImplementsContractHolds` | `StrategyRefinement` | `Spec => Contract!Spec`: the strategy model implements `StrategyContract` |

**Assumptions.** The theorems rest on the named assumptions `ConstantsAssumption` of `ConsensusStrategy`, `MaxIntAssumption` of `ProposerSelection` and `RoundAssumption` of `PrecommitRound`. `RoundAssumption` requires a finite validator set, positive powers and faulty power under a third of the total. That is the fault bound the Byzantine majority is built for. `ConstantsAssumption` requires that heights plus rounds stay within `MaxInt`. With that, the proofs never depend on the overflow that `proposer_overflow` exhibits above that bound.

**Inductive invariants.** Each safety invariant is proved through a strengthening. `SoundInv`, `EquivInv` and `LInv` are lemmas of the proofs, not properties of a run; each was checked with TLC as an invariant of `honest_restart` or `lifecycle_stop` before it was proved. `PInv` is also checked in `precommit_agreement`.

- **`SoundInv`** is `TypeOK /\ ChoiceNeedsRound /\ ChosenIsSound`.
  - `ChosenIsSound` alone is not inductive: a `ReEnterRound` after a restart sets `curH` again, and the proof must know that a node without a round has no choice (`ChoiceNeedsRound`).
  - The step proof shows that every action other than `ChooseProposedBlock` preserves a sound choice (lemma `SoundChoiceStable`). Views only grow, and the clock only moves forward.
  - It also shows that a chosen candidate satisfies `Acceptable` (lemma `ChooseSound`).
- **`EquivInv`** is `TypeOK /\ OwnHeadersTracked /\ NoEquivocation`.
  - `OwnHeadersTracked` says that an honest node's headers are for rounds not later than its engine round, and that a header for its current round is in its round view.
  - This is what makes the restart check of lines 161-170 effective: a re-entered round finds its own header in view and does not propose again.
  - Lemma `EnterRoundEffect` states what `EnterRound` can add, and `AddedOwnHeader` names that header.
- **`LInv`** is `TypeOK /\ RefsCover /\ HttpNeedsLn /\ StopProgress`.
  - Every running resource the Component has a field for has that field set (`RefsCover`, over `Fielded`): Start sets each field as soon as the resource exists.
  - The HTTP server exists only with a kept listener.
  - Each stage of Stop knows what has already ended.
  - The action property `ReleaseAfterExit` follows from `LInv` in one step (`ReleaseStep`): the only step that releases the connection or host is `StopClose`, and `StopProgress` says the engine and driver have ended by then.
- **`PInv`** is `TypeOK /\ PrecommitBacked`.
  - `PrecommitBacked` says that every hash an honest validator precommitted has honest prevotes behind it whose power, plus all the faulty power, reaches `ByzantineMajority(TotalPower)`.
  - `PrecommitAgreement` is not inductive by itself: it says nothing about why a hash was chosen. `PrecommitBacked` holds after `Precommit` because the summary counts only prevotes for the value (`SummaryPower`). It survives later prevotes because an honest validator prevotes once, so the honest prevotes behind a hash only grow.
  - Agreement follows (`BackedAgree`): the honest prevoters of two hashes and the faulty validators are disjoint, so their powers add up to at most the total, and `MajoritiesShareHonest` rules that out.
  - The lemmas `PowerFinite`, `PowerMono` and `PowerUnion` say that power is a natural number, monotone, and additive on disjoint sets. They follow from the library's cardinality theorems (`FS_Union`, `FS_Subset`, `FS_UNION`, `FS_Product`), because power is the cardinality of a set of power units.

- **The refinement** is proved along the usual layout:
  - the initial state maps to the contract's (`RefineInit`);
  - every step maps to a contract step or a stutter (`RefineStep`), under `RInv == SoundInv /\ EquivInv /\ ViewsProposed /\ BufValid`.
  - The two new conjuncts are needed because the contract looks at the proposed headers while the code looks at the round view:
    - `ViewsProposed` says that a round view holds only proposed headers, so a chosen block is one of the contract's headers;
    - `BufValid` says that the tx buffer always simulates, so a proposed batch does.
  - `NoOwnHeaderYet` turns `OwnHeadersTracked` into the contract's guard that the proposer has not proposed for the round yet.
  - `ClaimedNotAhead` shows that RFC3339 truncation never moves a time forward.
  - The proof needs `Malformed \notin DataIDs` and `BadAnnotation \notin Int`, which are part of `ConstantsAssumption`.

**What stays with TLC:**

- Liveness (`HonestProposalEventuallyChosen`, `StopReturns`). Its proof would reason about fairness and `ENABLED`, which the installed provers do not support.
- The properties of the violation runs.

## Findings

1. **`own_data_refetch`** (spec gap).
   - After a restart the proposer retrieves its own block data. The early return at lines 161-170 does not re-mark the data available, and the request cache is in memory.
   - Spec 4.2 step 8 says the local proposer never fetches its own data.
2. **`proposer_overflow`** (spec/code divergence).
   - `int(h) + int(r)` wraps near `math.MaxInt`, and Go's `%` keeps the sign. The index goes negative and the slice access panics.
   - The spec describes plain `(h + r) mod n`.
   - `ProposerIdxInRange` shows the code is right below the bound.
3. **`listener_leak`** (code bug).
   - When writing the `--g-http-addr-file` file fails (component.go 286-291), Init returns with the listener open and not stored in `c.httpLn`.
   - Stop cannot close it.
4. **`querytx_panic`** (code bug).
   - `QueryTx` panics on any `LoadTxByHash` error, for example a hash not yet finalized.
   - Its own TODO says such an error may be a bad request.
   - grpc-go does not recover handler panics, so the node dies.
5. **`seed_exits`** (spec/code divergence).
   - The `seed` command's description says it runs a seed node as a central discovery point, and it writes its multiaddrs to the file that validators read.
   - `RunE` then returns `nil` at once (line 455). Its deferred `cancel` ends the context the host and DHT were created under, and the command, and with it the process, is done.
   - Nothing waits for `cmd.Context()` to end.
6. **`orphans_outlive_stop`** (spec gap).
   - The comment at component.go 65-66 says what Start configures needs a clean shutdown in Stop.
   - Start also starts the gossip strategy on Start's ctx (line 199) and the watchdog on `rootCtx` (line 206), and keeps neither in a field.
   - Stop cancels `rootCtx`, so the watchdog ends eventually, but Stop does not wait for it; it neither cancels nor waits for the gossip strategy. TLC finds Stop returning with both running, for example after `tmengine.New` fails (213-215).
   - `FieldsReleased`, the same statement over what the Component keeps in fields, holds and is proved.

Not a finding, but noted while modelling: `EnterRound` has an empty `if c.signerPubKey == nil` block (lines 151-153) whose comment says "stop early". A node without a signer goes on to compare the proposer's key with nil. That comparison is false, so the node does not propose. Every node of the models has a signer.

## Not modelled

- The flags and the config-file writer of component.go (364-397). They build a flag set or create an empty file.
- The app configuration, which is static depinject configuration.
- The CLI wiring (`internal/gci/command.go`). `NewGcosmosCommand` builds the cobra command tree in a straight line: every library call's error panics, and its one branch (`IsAppRequired`) only chooses which dependencies the tree gets. No state outlives the call and nothing runs concurrently, so no property could tell two of its behaviours apart.
- The data-ID generator, a build-time `go:generate` program that hashes the empty input and writes a constant. The models' empty batch stands for that constant.
- The tests, the CI workflow and the SDK patches.

Their reasons are also in `PROJECT.json`. `Stop` concurrent with `Start` is not modelled, and not listed as a hazard. The model follows the server module's call order, in which `Stop` comes after `Start` has returned. That module is outside this repository, and nothing in `src/` calls `Stop` itself.

## Plan for further work

- A model of the request cache's concurrent readiness transition (spec 5).
- Composing `GRPCServer`'s buffer with the strategy's proposals.
- Liveness stays with TLC. Refining `HonestProposalEventuallyChosen` needs `ENABLED` and fairness, which the prover cannot handle.
