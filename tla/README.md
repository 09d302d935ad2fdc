# A verification project for pii-remover

TLA+ models of pii-remover, TLC runs over small instances of them, and TLAPS
proofs for instances of any size. pii-remover replaces personal data in a text by
tokens before the text reaches a language model, and puts the values back into the
answer. Its promise has two sides: what was masked comes back exactly, and nobody
ever gets a value that is not his. Both have to survive concurrent calls, streams cut
at any character, failing detectors, evictions and restarts.

Paths are relative to the repository's root, `core/` stands for `packages/core/src/`,
`proxy/` for `packages/proxy/src/`, `mcp/` for `packages/mcp-server/src/` and
`backend/` for `packages/backend/server/`.

1. [The system](#1-the-system)
2. [The modules](#2-the-modules)
3. [The runs](#3-the-runs)
4. [The proofs](#4-the-proofs)
5. [What was found](#5-what-was-found)
6. [What is not modelled](#6-what-is-not-modelled)
7. [The plan](#7-the-plan)

## 1. The system

| Component | State | Operations | Correct when |
|---|---|---|---|
| **Core remover** `core/pii-remover.ts`, `core/vault/manager.ts`, `core/restorer/`, `core/synthetic/`, `core/policy/failure.ts` | the vault: token -> surface; `disposed`; the token key | `mask`, `restore`, `dispose`, a restart | a masked text restores to its own values while the vault lives; a dead or damaged token never becomes somebody else's value; a restored text is changed where tokens stood and nowhere else |
| **Detection** `core/backend/strategy.ts`, `core/backend/tiered-strategy.ts`, `core/detector/` | backends pending, answered or failed within one call | `detect`: single, merged, tiered | fail-closed; disjoint spans (the vault throws otherwise); tiered mode keeps local findings from the remote backend |
| **Remote clients** `core/backend/remote-http.ts`, `opf-http.ts`, `tls.ts` | the TLS material, read once; the attempts of each call | construction, `detect`, `healthCheck` | no request without the configured protection, with one exception ([5](#5-what-was-found)); only transient failures are retried; what is kept of an answer lies in the text |
| **Token key and auto-start** `core/backend/auto-start.ts`, `core/redaction/token-hash.ts` | `inFlightAutoStart`, the key file, the container and its key | probe, warm up, `docker compose up`, poll; resolve the key | one start at a time; whoever does not look for the key while it is being made has the one in the file, and so has the container; every call ends |
| **MCP vault pool** `mcp/vault-pool.ts`, `mcp/tools/` | a Map of removers with last use; a sweeper | `sanitize`, `desanitize` (single, batch), dispose, sweep, shutdown | a token handed out stays restorable while its `vault_id` resolves; ids never revive; the pool is bounded |
| **Proxy server** `proxy/server.ts`, `proxy/session.ts` | session -> promise of a remover; requests in progress | a request from its arrival to its answer, `stop()` | one vault per session; a client sees its own session's values only; a request ends unless somebody it waits for never answers |
| **Routing and providers** `proxy/router.ts`, `proxy/providers/`, `proxy/policy/` | the conversation the client keeps | mask a body, add the note, restore an answer | what the masked fields hold never goes out in clear; the note is there once, and what was sent before stays as it was (prompt caches depend on it) |
| **Stream restoration** `proxy/stream/` | token buffers, accumulators of tool input and thinking, the read loop | deltas, stop events, flush, abort | no token is cut, lost, doubled or shown late; the client's end is the stream's end |
| **Thinking replay** `proxy/stream/thinking-cache.ts`, `proxy/providers/thinking-replay.ts` | an LRU cache signature -> signed thinking | answer, cut off, replay, restart | the upstream gets back exactly what it signed |
| **OpenCode plugin** `packages/opencode-plugin/src/` | the host's conversation; removers that instances share | the hooks | the model sees no value and no dead token; what the user sees is never rewritten |
| **CLI** `packages/cli/src/` | the settings files of three hosts | the hook of a prompt; `install` | a prompt with personal data passes to no other machine; settings that are not ours survive |
| **Model lifecycle** `backend/opf_runner.py`, `backend/korean_ner_runner.py`, `backend/main.py` | the parts of each model, its load lock, the idle clock | lazy load with fallback, inference, idle unload | an inference uses one load; the monitor fails nobody; every request is answered |
| **Redaction endpoint** `backend/regex_pipeline.py`, `backend/api/redact.py`, `backend/api/redact_image.py`, the decoding in both runners | labels, spans, boxes while a request lasts | decode, dedupe, merge, exclude, splice or paint | what was found is masked; the rest is untouched |
| **Backend proxy** `backend/api/proxy.py`, `backend/pii/` | one `VaultManager` for all threads | mask on a thread, restore on the event loop | a token that was sent stays restorable; sessions stay apart |
| Patterns, configuration, audit, formatting, evaluation, scripts | see [6](#6-what-is-not-modelled) | | |

**How they interact.** A client (MCP tool, proxy, plugin or hook) owns removers. A
remover's `mask` awaits detection, then writes its vault in one synchronous stretch; its
`restore` reads the vault. Detection calls local patterns and, over HTTP, the backend,
which loads and unloads its models as it goes. The proxy masks a request with the
remover of its session, sends it upstream, and restores the answer as it streams through
a transformer. Thinking that the upstream signed must go back unrestored, so the proxy
keeps the signed bytes. Removers of different processes agree on tokens only through the
token key; auto-start hands that key to the container. The installers write the settings that
decide whether a prompt reaches the proxy at all, and the hook checks that it goes to this machine.

**What is hard.** The TypeScript parts run on an event loop: what is read before an
`await` may be stale after it (evictions, disposal, `stop()`, aborts). The backend runs
threads and an event loop on shared attributes, with one lock per model and none on the
vaults. Streams are split anywhere. Processes restart with empty vaults while conversations
keep their old tokens. Installers race each other and die in the middle of a write.
`PROJECT.json` lists 40 such places, each with the properties that watch it.

## 2. The modules

The state of a model is the state of the code under the code's own names where that was
possible. An action is the code between two awaits (TypeScript), between two accesses to
what threads share (Python), or one input event (streams). Texts, names and bytes are
model values or small records: a token is what identifies it, never its characters. Where
characters decide (`RestorerPasses`, `ImageRedaction`, `SpanDecoding`), a text is a short
sequence of classes of characters, or of positions.

| Module | Models | State and actions |
|---|---|---|
| `VaultPool` | `mcp/vault-pool.ts`, the four tools | `pooled`, `lastAccess`, `retired`, `records`; `StartCreate`/`InitDone` and `StartExisting` are the halves of `resolve()` around its await, `BeginText`/`EndText` those of `mask()`, `Sweep`, `Dispose`, `Shutdown`, `Tick` |
| `VaultStore` | the abstract specification of the pool: open, learn, promise, close | implemented by `VaultPool` (`ImplementsStore`) |
| `Remover` | `mask`, `restore`, the vault with its collision check, failure policy, repair, restart | `entries` maps tokens to surfaces, `calls` are the mask() calls in flight, `answers` is a history; what a detector reports is a function from places of the text to surfaces (`Readings`), and `WithSecrets` the merges of a report with the scanned secrets; `Resolve` is the operator behind `restore` |
| `RestorerPasses` | one `restore()` over a text: look-alikes, tokens in three strengths, repair, paths, counters | `Seek` and `ReplaceSynthetic` are the synthetic pass, `ScanTokens` the scan, `Replace` one token from the right, `Residual` the end |
| `Spans`, `MergeLoop` | `mergeDetections`, `mergeBackendDetections` and the widening of names, as functions and the first also as a loop | the functions are used by `Detection`; the loop shows each comparison as a step; both share `MergeStep` |
| `Detector` | the abstract specification of `detect()`: one step, a failure or disjoint spans | implemented by `Detection` (`ImplementsDetector`) |
| `Detection` | one `detect()` with its backends in any order | `state`, `found`, `sent` (what the remote backend was shown) |
| `RemoteClient` | the HTTP clients behind a backend, their timer, retries and TLS files | `Client` is the choice of the client with what its environment variables hold, `tls` is the kept promise, `call[c].tried` the outcomes of a call's attempts, `Rotate` replaces a file |
| `StreamBuffer` | `proxy/stream/buffer.ts` | a text is its tokens and lookalikes; `Push`, `Flush` |
| `SseText`, `AnthropicSse`, `OpenAISse`, `CodexSse` | the three transformers of streamed answers | one action per event; what the upstream has sent and what the client was shown are variables; a token and its value are two pieces, so that a text is restored piece by piece |
| `StreamTransformers` | the choice of a transformer, and what all promise | composes the three over one state |
| `StreamPump` | the read loop of `streamingResponse`, with aborts | a pending read, its result, the continuation |
| `ThinkingCache`, `ThinkingReplay` | the LRU cache; blocks going through client, proxy and upstream | `entries`, `bytes`; `Answer`, `Cut`, `Replay`, `Restart` |
| `ProxyServer` | sessions, requests, `stop()` | `entry`, `promise`, `vault`, `req[r].pc` names the await a request is at |
| `Conversation` | the route of a path, masked and restored fields, the note, over the turns of a conversation | `thread` is what the client sends again each turn, `bodies` what upstream got, `told` what it wrote |
| `PluginHooks` | the OpenCode plugin, loaded as one module or as two (`Split`) | `store` is the host's conversation, `build`/`singleton`/`promise` the shared remover; `Dispatch`, `MaskNext`, `Send` are a request, `ModelWrites`, `ToolRuns` its answer |
| `HookGate` | the hook of one prompt | one stage after the other, each may fail; `HostDecides` reads the outcome |
| `Install` | the installers of three hosts over their settings files | `pc` of an invocation: read, write, the fill of a config, the scan for rivals; `dead` in between |
| `AutoStart` | `maybeAutoStartBackend` and `resolveTokenSecret` | `pc` of each caller, `inFlight`, `file`, `containerKey`; `Read` finds the file, finds it missing or cannot read it; `raced` are the callers that looked for the key while another process was making one; the service loads, unloads and goes down at any moment |
| `ModelRunner` | load, inference, unload, the idle monitor | `model`, `lock`, `clock`, `monitor`; `held` is the snapshot an inference took |
| `SpanDecoding` | Viterbi over BIOES labels, greedy BIO labels, grouping into spans | one round of each loop per action |
| `RedactMerge` | `find_pii_spans`, `_merge_spans_and_mask`, `apply_tokens` | one step per span and per replacement |
| `ImageRedaction` | `/redact/image` from the words of the OCR to the painted boxes | `Joins` appends a word to the text, `Finds` maps a finding back, `Paints` ends |
| `PortVault` | threads masking over the backend's one `VaultManager` | `FindsVault`/`CreatesVault` are the test and the assignment of `get_or_create`, `IndexBegins`/`IndexEnds` the comprehension of `assign`, `Mints` a round of its loop |
| `*_proofs` | the theorems of [4](#4-the-proofs) | |
| `MC*` | instances for TLC | |

**Layers.** An MC module holds several models that share no state; which of them a behaviour
explores is a variable, `layer`, of the initial state, and the others rest in one state. So one
run asks all that is asked of a part of the system, and nothing is spent on interleaving
models that never touch each other.

| MC module | Layers |
|---|---|
| `MCRemover` | `Remover`, `VaultPool`, `RestorerPasses` |
| `MCProxyServer` | `ProxyServer`, `StreamPump`, `ThinkingReplay` (with the cache alone, `MCThinking`), `Conversation` |
| `MCDetection` | `Detection`, `MergeLoop`, `RemoteClient`; of the backend `SpanDecoding`, `RedactMerge` (`MCRedactMerge`), `ImageRedaction`, `PortVault` |
| `MCClients` | `Install`, `HookGate`, `PluginHooks`; `StreamBuffer` and `StreamTransformers` (`MCStream`) |

A definition preceded by a comment `Mutant of X` is a plausible bug in the code `X` models;
`PROJECT.json` names the property that must catch it.

## 3. The runs

| Run | Instance and bounds | Distinct states |
|---|---|---|
| `remover` | 2 mask() calls, 5 surfaces of which a detection may overlap one, 2 keys, 8 hashes, vault limit 2, 2 answers, 1 restart; pool: 2 calls, pool of 1, 3 vaults, TTL 1, time to 2; one restore() over texts of one or two tokens, or of three pieces of look-alikes, with 4 entries | 390,000 |
| `detection` | 3 backends, a text of 9 positions, all configurations; merge loop: all sorted lists of up to 4 spans on 5 positions; 2 calls of a client with 1 retry, 2 files replaced; backend: 3 tokenized texts with 7 labels and 2 calibrations, 4 positions with up to 2 matches, 2 spans and 1 name but 4 in all, images of 4 words, 2 requests over 2 sessions with 4 surfaces | 1,546,000 |
| `proxy_server` | 2 requests, 2 sessions, 2 values; pump: 5 chunks; thinking: 3 signatures, cache of 2 entries and 4 bytes; conversation: 4 items, 3 requests, 8 paths | 263,000 |
| `clients` | 2 invocations of the installer, one of them at least of the host that has been used before, 10 sets of flags, 18 situations; the hook with 5 URLs; the plugin as 2 modules, 3 parts of which the first is the user's; buffer: all texts of 7 positions with up to 3 runs, window 3; transformers: 2 blocks, 2 or 3 pieces each, which of two has which kind counted once, without `flush_on_close` only two of a kind (of OpenAI, no habits) | 946,000 |
| `auto_start` | 3 callers in 2 processes, 1 further probe | 90,000 |
| `model_runner` | 2 requests and the lifespan's load, OPF in 2 parts with a fallback, the Korean model in 1 | 89,000 |

**What each shows, and why the bounds are enough.**

- `remover`: `RemoverInv` (answers restore to their own values), `OwnValueOnly`,
  `DamagedIsOwnOrWithheld`, `MissIsClassified`, `SecretsAreHidden` (while their category is enabled,
  and no other detection overlaps them: which of the two the merge keeps is `MergeLoop`'s part): the
  hash function is chosen adversely, two values collide outright, others are two edits
  apart, so that a damaged token has two neighbours. `PassInv`: each replacement is at its place,
  whatever the lengths before it were, and the counters add up; the samples put every kind of
  token between, before and after any other, and look-alikes that begin one another, overlap or
  take a particle with them. Of the pool, `PoolInv` (a vault that resolves is not disposed, and
  holds every token it gave out), `Overshoot`, `LastUseDecides` and the refinement of
  `VaultStore`. Two calls are the fewest for each race in the code (two creations, a call against
  an eviction, a sweep or a shutdown); the third vault shows an id leaving the pool while another
  call still holds it. A behaviour of `Remover` ends with its second answer: what the properties say is of one
  answer and the vault, which another answer may have filled before or after. Calls and requests are
  symmetric.
- `detection`: `FailClosed`, `LoneSpansAreHidden` (what one backend alone has found is hidden, and in
  tiered mode before the remote backend sees the text), the refinement of `Detector`; `LoopInv` and
  `PairIsDecided` of the loop. Overlaps of three and four spans are where the greedy loop loses
  information; a fifth adds no new comparison. `ClientInv`: protection by token and TLS
  material, with each credential there, configured and missing, or not named; retries; and what is kept of an
  answer; two calls are the fewest that share the TLS material, and a file replaced between
  them shows whose version each carries. `BackendInv`: the labels are the best legal ones (against
  all paths of the text), the spans are ordered and hold what was labelled, the merged spans
  are disjoint and hide every match, ties going to the regex, and every word with a found character
  is painted over. `PortInv`: two threads are the fewest for each race; the bodies have one value in
  two spellings, a text after another, and enough values to go over the vault's limit.
- `proxy_server`: `ServerInv` (one remover per session, only own values), `AnswerIsComplete`,
  `RequestIsAnswered`; of the pump `StreamEndsWell`; of thinking `WireIsSigned` and `LastUsedAreKept`
  (three blocks for two places make every eviction order possible; sizes make both caps bind); of
  conversations `ConversationInv` (promised fields hold nothing in clear, the note is there once,
  bodies extend earlier ones, the model's words come back as tokens it knows). Four items and three
  requests put each kind of field before, between and behind the others and send it again twice.
- `clients`: `InstallInv` (after an install that said so the registration is right, and another one
  changes nothing), `SettingsSurvive`, `RivalsAreNamed`; `GatesAreClosed` of the hook, together
  with what an installer wrote, and of the plugin (a prompt with personal data goes to this machine only, unless the
  user vouches for the URL or switches masking off; that what listens there masks it is not claimed, see
  `clients_unrouted`); `StoreKeepsItsParts` of the plugin. Two invocations are the
  fewest that overwrite each other's work (they are alike, so only one order of their flags is
  tried); three parts are a value, its token from an earlier process, and what the model makes of
  both. Of the streams, `NoTokenIsCut`, `HeldIsBounded`, `AnswerIsWhole`: a run of characters may be a token, its
  beginning or a lookalike, in every arrangement that the grammar of tokens allows (`Apart`); the
  shortest token is as long as the window, which puts both at their limits.
- `auto_start`: `StartInv` (one start at a time, followers share its outcome, and one key for all who did not
  look for it while it was being made, the container included), `FailureIsForgotten`, `EveryCallEnds`. Two
  callers of one process dedupe, the third races them for the key file from another process, which may be
  missing, empty, unwritable, or there and unreadable. The first of the two alike callers starts first.
- `model_runner`: `RunnerInv` (an inference is of one load; the monitor fails nobody),
  `OnlyIdleIsUnloaded`, `RequestIsAnswered` (and idle models are unloaded in the end). Each load is
  numbered, so parts of different loads can be told apart; loads are numbered modulo a bound larger
  than the number of loads whose parts can be around at once.
- `redact_merge_swallowed`, `detection_remote_sees`, `stream_done`, `client_timeout`,
  `synthetic_collides`, `clients_unrouted`: see [5](#5-what-was-found).

**Deadlock** is checked in `model_runner`, whose system runs for ever. The other instances end in
some layer: a bounded number of vaults, chunks, positions, turns or restarts, a one-shot
call, or a server that was stopped; their configurations say `CHECK_DEADLOCK FALSE`. What must end is
asked for as liveness instead (`EveryCallEnds`, `RequestIsAnswered`, `StreamEndsWell`).

**Fairness.**

- `ProxyServer`: weak fairness of what a handler goes on with by itself (`OwnStep`), of `init` (it reads a file)
  and of `stop()`. Nothing is assumed of what a handler waits for: the client's body, a detection (the timer of
  a remote one stops at the headers, which is what `client_timeout` shows), the upstream and its stream
  (`callUpstream` sets no limit). `RequestIsAnswered` says that a request ends unless one of these is silent for
  ever, and that `stop()` ends whatever they do.
- `StreamPump`: weak fairness of a read that has something to return and of the code that
  awaits it. The upstream and the client owe nothing.
- `AutoStart`: weak fairness of each caller. Probes and warm-ups have `AbortController` limits; that
  `docker compose` exits is an assumption (the code sets no limit).
- `ModelRunner`: strong fairness of each thread's next step, because the monitor may stop the
  event loop again and again and a lock may be taken by others again and again; and of
  the monitor, whose sleep ends. Nobody has to send a request.
- `RemoteClient` (`client_timeout`): weak fairness of the timer and of the event loop's continuations.
  The network owes nothing, a body that was begun included.

## 4. The proofs

TLC checks the instances above; TLAPS proves the following for all values of the
constants. Every property was checked by TLC before it was proved.

| Module | About | Theorems | Inductive invariant |
|---|---|---|---|
| `VaultPool_proofs` | `VaultPool` | `TypeCorrect`, `PoolSafe`, `PooledAreAlive`, `IssuedAreRestorable`, `NoRevivalHolds`, `PoolIsBounded`, `LastUseDecidesAlways`, `PoolImplementsStore` | `PoolInv`, defined in `VaultPool` |
| | `PortVault` | `ThreadsStayApart`, `ThreadsAreSafe` | `ThreadsInv` |
| `Remover_proofs` | `Remover` | `TypeCorrect`, `RemoverSafe`, `MaskedTextsRoundTrip`, `EntriesStayTheSame`, `OnlyOwnValues`, `DamagedTokens`, `MissesAreClassified`, `SecretsStayHidden` | `RemoverInv` |
| | `RestorerPasses` | `PassesAreRight` | `PassIInv` |
| `Detection_proofs` | `Detection` | `CallSafe`, `DetectionFailsClosed`, `CallIsWhole`, `CallIsADetector`, `LoneSpansStayHidden` | `CallInv`, `DetInv` |
| | `MergeLoop` | `LoopSafe`, `MergedSpansAreDisjoint`, `MergeInventsNothing`, `LoneSpansAreKept`, `PairsAreDecided` | `LoopInv`, `PairInv` |
| | `RemoteClient` | `ClientStaysWhole`, `ClientIsSafe` | `HttpInv` |
| `ProxyServer_proofs` | `ProxyServer` | `SessionsStayApart`, `ProxyIsSafe`, `AnswersAreComplete` | `SessionsInv` |
| | `StreamBuffer` | `BufferSafe`, `TokensStayInOnePiece`, `BufferHoldsAWindowAtMost`, `BufferLosesNothing` | `BufferInv` |
| | `StreamPump` | `PumpIsComplete`, `AbortEndsAll` | `PumpInv` |
| | `StreamTransformers` | `AnswersAreWhole` | `TransformerInv` |
| `Conversation_proofs` | `Conversation` | `ThreadStays`, `ConversationIsSafe` | `ThreadInv` |
| | `ThinkingReplay` | `ReplaySafe`, `CacheHoldsSignedBytes`, `ThinkingGoesBackAsSigned` | `ReplayInv` |
| | `MCThinking` | `LastUsedStay` | `KeptInv` |
| `Clients_proofs` | `Install` | `RegistrationStaysRight`, `SettingsStay`, `RivalsStayNamed` | `WrittenInv`, `RivalInv` |
| | `PluginHooks` | `PluginStaysShared`, `PluginIsSafe`, `PartsStay` | `StoreInv` |
| | `HookGate` | `GateStaysClosed` | `HookInv` |
| | `MCClients` | `GatesStayClosed` | the three of the parts |
| `ModelRunner_proofs` | `ModelRunner` | `ModelsAreWhole`, `RunnersAreSafe`, `UnloadedIsIdle` | `ModelInv` |
| `AutoStart_proofs` | `AutoStart` | `StartStaysOrderly`, `StartIsSafe`, `FailuresAreForgotten` | `AutoInv` |

**The arguments.**

- *Pool.* That an issued token is still there is not inductive: a call that has recorded a
  value and not answered yet must find it later. `CallsAreRecorded` says so of every call in flight
  on a pooled vault, `Bookkeeping` that a minted id is pooled or disposed and an unminted one
  empty, `IdsInUse` that calls hold minted ids. The bound on the pool's size counts the creations
  in flight with the pooled vaults; it rests on a lemma on cardinalities per action.
  `LastUseDecides` needs that only `resolve()` begins a call and that it evicts one vault, the oldest.
  The refinement maps each action to one of `VaultStore` or to a stutter; a call that masks in a
  vault that was closed meanwhile maps to a stutter.
- *Threads over one vault.* Vaults only grow (`Grows`), so what a thread has found in one stays
  there; but a thread may be at a vault that another one has replaced. `HoldInv` says which vault that
  can be, `MintInv` what a round of the loop has minted and may have lost to another thread's
  round, `TextInv`, `SentInv` and `ShownInv` what the texts that were masked, sent and shown say.
- *Remover.* Every entry lies under the token of its own surface, and what was hidden in an
  answer has an entry that says the same value. The heart is that `assign` gives a text no
  token that belongs to another value (the collision check), in whatever order texts come.
  `OwnValueOnly` and `DamagedIsOwnOrWithheld` follow from that invariant and from `Resolve`:
  repair needs exactly one live neighbour, of the same category. `OwnValueOnly` excepts values
  whose hashes are within one edit of another value's (`Apart`), which 16 characters of HMAC
  make a matter of luck. `SecretsAreHidden` follows the ways an answer can come about: the text
  let through, or a merge of the scanned secrets with whichever report there was (`EndMaskAnswer`).
- *Passes.* What stands to the left of the next replacement is still the text as it was, for every part
  dealt with lies to the right of it: so each replacement is at its place, whatever the lengths
  (`RebuiltSplice`). That the parts are apart needs, of look-alikes, that the search goes on behind each one found
  and that a particle taken with it begins no other (`MatchesApart`; an occurrence passed over was taken or did
  not stand alone, `Searched`); of tokens, that behind its head one holds but characters of a hash and braces
  (`TokenShape`), so that none begins inside another (`TokensApart`). A token's hash is all of the run behind its head, if that is no
  more than one too long, whichever of the three patterns took it. The counters add up token by token (`Tallied`).
- *Merge loop.* What is kept is ordered and disjoint, and its last span starts no later than
  the next input; so only the last one can overlap it, which is why comparing with the last one
  is enough. Two spans that meet only each other are neighbours in the sorted input
  (`PairsAreNeighbours`), so the second is compared with the first, and neither again (`PairInv`).
- *Detection.* A tiered call asks the remote backend only after a local answer, and a call that
  ended without asking had none. Otherwise a late answer could undo `FailClosed` (`CallInv`). What a call
  answers is the merge of the widened reports, and what the remote backend was shown is the text without the
  merged local ones; that both stay so needs that nobody reports any more once there is an answer
  (`AskedInv`, `AnswerInv`; with `CallInv` they are `DetInv`). The rest is about sequences: the loop of the
  merge keeps its list ordered and disjoint for input of any length, a span that overlaps no other passes
  through each of sorting, merging, combining and widening (`MergeBackendsIs`, `CombinedIs`, `WidenIs`), so it is
  in the answer (`LoneSpansAreHidden`); and an answer that is ordered and disjoint is one step of `Detector`.
- *Remote client.* Between the first call and the import of undici the material is complete and
  nobody has used it; from then on it does not change, whatever becomes of the files. Each request
  carries that material, and the token its client was made with (`MaterialInv`, `SentInv`); a client is made
  without a token only where none is due (`TokenDue`). A call that is under way has had only
  transient outcomes (`AttemptInv`).
- *Proxy server.* A request in progress holds the remover the pool has for its session, until `stop()`
  clears the pool (`Dedicated`); what a remover knows was said in its session (`VaultsAreSaid`), and what
  a request has sent is in its vault unless that was disposed of (`SentIsKnown`).
- *Buffer.* Whatever was handed on ends at a recorded cut, and no cut is inside a token. A new
  cut is the end of the buffer or the start of its earliest unfinished run; a token around it
  would itself be unfinished and start earlier.
- *Pump.* Until an abort what reads have returned was enqueued, but for a chunk the loop has not come to yet,
  and only the end of the body lets the loop end well. Only an abort cancels the body.
- *Transformers.* Per block, choice or item, while the body is open: what the upstream has written is what the client
  has seen, restored, and what the buffer or the accumulator holds (`BlockInv`, `ItemInv`, `ChoiceInv`); what has
  stopped was seen whole. That deltas may split a token anywhere rests on three lemmas: what a buffer hands
  on never ends in half a token (`SafeIsUnsplit`), a buffer fed in parts hands on what it would of the
  whole (`HeldInParts`), and restoring in such slices is restoring the whole (`RestoredInSlices`).
  Two habits of an upstream are excepted, as in the property: content next to a tool call passes by the buffer,
  and a finish reason next to content that is held is dropped with it.
- *Conversation.* A transform masks item by item and adds the note in front or behind; lemmas per
  transform say where the note stands afterwards, that masking twice is masking once, and that a longer
  conversation gives a longer body. `Headed` says how the client's own conversation may begin, and
  `PrefixInv` that the next body extends the last one whatever the client adds. `TokenInv`, `VaultInv`
  and `ToldInv` tie the tokens in an answer to what the proxy has masked, over restarts.
- *Thinking.* The cache holds signed bytes of answered blocks, and the client's history holds
  blocks as shown or with a broken signature; then every replayed block is as signed. For the cache itself,
  its entries are in step with the last ones of the history of uses, which names each signature once
  (`Tails`, `KeptInv`); what `set` shifts out is a prefix of the others, and with one entry less shifted out a cap
  would not hold (`SetIs`). That the running total is what the entries take rests on lemmas about
  sums over parts of a sequence (`SizesBehind`, `SizesOfRemoved`).
- *Installers.* A report is of the patch that was made, and what others put into a file is in every
  version of it that is whole, those in an installer's memory included (`WrittenInv`): so a race may undo our
  registration but never theirs. That a patch registers once, keeps what it must and changes nothing the
  second time is a lemma for each host about sequences of any length (`GroupHooks`, `HookAgain`, `HooksStay`,
  `PluginsAreRight`, `BlocksAreRight`). For rivals, a host is served once by each invocation, and what it has
  registered is there while nobody else has the file (`RivalInv`). `RivalsStayNamed` is stated for two installers
  at most, as the run has them: with three it is false, for the third may have the file of the first open, and
  empty, while the second looks.
- *Plugin.* The shared remover is the one of the promise all builds wait for (`RemoverIsShared`), and no
  dispatch is under way before both modules are loaded (`BusyIsLoaded`). A part that was masked with some
  vault holds, for every later vault, nothing raw and no dead token (`CopiesAreClean`): the vault grows
  while other parts are still being masked.
- *Hook.* The outcome of each stage is known before the next one runs; a stage that throws leads to a
  block, the writing of the answer included. So a prompt passes only once its URL was found to be of this
  machine, or was vouched for.
- *Models.* Who loads holds the lock (`LockInv`), the parts set so far are of that load (`LoadInv`); a model that
  nobody is loading is of one load up to the part at which a load failed (`PartInv`, `OfOneLoad`). So a snapshot
  taken under the lock is of one load, and if its last part is there it is whole.
- *Auto-start.* A work is in the Map exactly as long as it lasts (`WorkInv`); its followers find its outcome
  (`LeaderInv`). For the key, as long as the file is the configured one, can be written, and was never found unreadable
  (`PeaceInv`): who makes a key and was in no race is the only one that makes one, and finds no file (`MakerInv`);
  who has a key and was in no race has the one in the file, and nobody is making another (`HolderInv`). Those who
  are making one at the same time, or read the file while it is empty, are `raced` from then on: each
  keeps its own key, and the last to write decides what everybody else will have.

**Assumptions** are named in the modules that declare the constants, and TLC evaluates each
in a run: `RequestsAssumption`, `SizeAssumption`, `BoundsAssumption`, `BatchAssumption` (the pool);
`PortAssumption` (the forms of a value and the vault's limit); `SurfacesAssumption`, `HashAssumption`
(equal values of a category hash equally under a key; a hash carries its key's epoch),
`NearAssumption` (a hash is near itself), `LimitAssumption`; `PassAssumption` (a look-alike is never empty, and
one with Hangul in it ends in Hangul: a name of the pool or an address, `core/synthetic/index.ts:24`); `RemoteAssumption`, `ConfigsAssumption` (what the
configuration schema accepts), `ReportsAssumption` (a report is a list of non-empty spans), `TextAssumption` (a
text is finite); `InstallAssumption` (hooks and plugins of others are told from ours by name); `DetectionsAssumption`, `InputsAssumption` (non-empty spans, sorted);
`ClientAssumption` (retries are a whole number), `CredentialAssumption` (what the schema accepts of credentials); `ProxyAssumption`; `TextsAssumption` (a token fits the
window, tokens do not overlap); `PumpAssumption`; `ChunksAssumption` (deltas carry pieces of text); `ConversationAssumption` (the note is no value); `CacheAssumption`,
`ReplayAssumption` (only the empty text is shown as empty); `RunnerAssumption` (a model has at least one part
and one variant); `StartAssumption`. The modules without theorems name what they take for granted as
well: `DecodingAssumption`, `ImageAssumption`, `MergeAssumption`.

**Recursion.** The library's induction theorems take an operator as a parameter, which the installed
provers cannot instantiate. What a walk over a sequence computes is therefore proved from the least place at
which it would fail: the numbers are well-founded (`SetInduction`), a walk exists for every step function
(`Walk`), and is unique. Definitions that are proved about are recursive functions over the places of a
sequence, not folds or `RECURSIVE` operators.

**Only model-checked.**

- Liveness under fairness and everything with ENABLED is out of this prover's reach: `EveryCallEnds`,
  `RequestIsAnswered` (of the proxy and of the models), and of `StreamEndsWell` the parts
  `EndIsTold` and `AbortStopsUpstream`.
- `BackendInv`: best paths of labels are compared with all paths (a recursive set of them), and the merge and
  the images use folds.

## 5. What was found

Six runs end in a counterexample to what the repository says of itself.

- `redact_merge_swallowed`: a mail address inside an excluded private URL is sent as it is. The
  regex matches are merged among themselves before the proxy's exclusion
  (`backend/regex_pipeline.py:260`, `backend/api/proxy_deps.py:63`), against
  `packages/backend/README.md:234`.
- `detection_remote_sees`: in tiered mode the part of a local span that lies outside the span that
  won the merge reaches the remote backend (`core/backend/tiered-strategy.ts:198`), against line 36
  of that file.
- `stream_done`: an OpenAI stream's `[DONE]` is passed on before held content and all tool call
  arguments (`proxy/stream/openai-sse.ts:97`), against `packages/proxy/README.md:61`.
- `client_timeout`: the timer of a backend's client is cleared when the headers have come, so a body
  that stalls keeps the call waiting for ever (`core/backend/remote-http.ts:229`), against
  `docs/TRUST_TIERS.md:907`.
- `synthetic_collides`: the index of a look-alike is a hash and not the position in the vault, so two
  values may share one long before the vault holds 50, and restoring puts one in the other's place
  (`core/vault/manager.ts:134`), against `docs/ADR/0018-synthetic-substitution.md:217`.
- `clients_unrouted`: the hook lets a prompt with personal data go to any URL of this machine, a bare root
  included, which bypasses masking (`packages/cli/src/protocol/proxy-detection.ts:73`,
  `packages/cli/src/commands/proxy-url.ts:6`), against `packages/cli/README.md:184` and `docs/ADR/0012-claude-code-hook-protocol.md`, which ask for a
  path under `/anthropic/`.

Noticed while modelling. The models behave like the code here; none of it has a run of
its own.

- *Pool.* It exceeds `maxSize` by the creations in flight (`mcp/vault-pool.ts:82`, against line 10); an
  init that ends after `shutdown()` inserts into the emptied pool (line 86); the oldest vault goes
  before the new one's init has succeeded (line 83); `sanitize` may answer a `vault_id` that was
  evicted during detection (`mcp/tools/sanitize.ts:67`).
- *Remover.* The hard limit is tested after the entries were added (`core/vault/manager.ts:149`), so a
  vault that went over it stays over it; a mask in flight refills a vault after `dispose()`
  (`core/pii-remover.ts:281`); repair does not compare epochs (`core/restorer/repair.ts:80`),
  although `core/token/format.ts:92` counts a matching epoch among its checks; a secret that another detection
  overlaps may lose the merge, and is then masked in part or as something else (line 274 of
  `core/pii-remover.ts`), and with the category `secret` disabled secrets are not scanned for at all (line 268).
- *Detection.* A chain of overlaps can lose its longest span, since each comparison is with the last
  kept one (`core/backend/strategy.ts:177`, against line 22); ties go by confidence (line 186, against 23);
  a dictionary backend counts as the model and suppresses names (line 133); tiered mode drops local
  names (`core/backend/tiered-strategy.ts:136`) and, with `skip_remote`, answers a text unmasked when
  all local backends fail (line 176); widening a name may drop a neighbour (`core/detector/index.ts:45`).
- *Remote clients.* A client with bearer authentication and no `token_env`, for an OPF endpoint on this machine,
  is made with no authentication and sends its requests without (`core/pii-remover.ts:617`, line 714), while
  `docs/ADR/0005-backend-strategy-trust-tiers.md:96` has missing credentials fail closed; `ClientInv` excepts it by name (`TokenDue`).
- *Streams.* OpenAI content in an event that also has a tool call is not restored
  (`proxy/stream/openai-sse.ts:127`); a finish reason next to content that is held goes with its event
  (line 164); other fields of a Codex `done` event are not restored
  (`proxy/stream/codex-sse.ts:146`); thinking larger than the cache is shown restored and cannot be
  replayed (`proxy/providers/thinking-replay.ts:114`); the pump reads on whether or not the client
  keeps up (`proxy/server.ts:408`).
- *Proxy.* One failed session keeps `stop()` from disposing any (`proxy/session.ts:64`), and its rejected
  promise answers every later request of that session; a detection, or an upstream, that never ends its
  body keeps its request for ever.
- *Backend.* A load that fails after its first part leaves a model that counts as loaded: `/warmup`
  reports ok (`backend/opf_runner.py:532`) and requests fail on assertions
  (`backend/korean_ner_runner.py:315`); a model that was loaded at start and never used is never
  unloaded (`backend/main.py:69`); of two overlapping spans the leftmost is kept, not the widest
  (`backend/api/redact.py:88`); a phone number wins over a business number by pattern order
  (`backend/regex_pipeline.py:196`).
- *Decoding.* A label inside a span that does not fit it closes the span and is lost
  (`backend/korean_ner_runner.py:149`), a span that begins on a special token as well
  (`backend/opf_runner.py:267`); the models see the first 512 tokens of a text and nobody is told of the
  rest (`backend/opf_runner.py:452`, `backend/korean_ner_runner.py:334`); a value with a badly read word in
  its middle is not found in an image (`backend/api/redact_image.py:195`).
- *Backend proxy.* Two first requests of a session may each make a vault, and the tokens of one are lost
  (`backend/pii/vault.py:160`, against "one vault per session id" in line 97); a thread that indexes a vault
  while another mints in it fails its request with a 500 (line 192).
- *Conversations.* Responses items whose content is a plain string, tool calls and results, and replayed
  `output_text` are not masked (`proxy/providers/codex.ts`); a system message that a chat client adds later
  moves the note and breaks the prompt cache.
- *Restorer.* A lenient match leaves a lone closing brace behind; the particle behind a look-alike
  is dropped on restore (`core/synthetic/restore.ts:41`).
- *Clients.* An install with another `--command-path` adds a second OpenCode plugin entry, against
  `packages/opencode-plugin/README.md:59`; an init that was rejected once fails every later build of the split
  plugin (`opencode-plugin/src/hooks.ts:305`).
- *Key.* Host and container, or two processes, disagree when `restoration.token_key` names another place, when
  the key cannot be saved (each resolution makes a new one), when a key file that is there cannot be
  read (`core/redaction/token-hash.ts:159`: a new key is made and, if it can be, written over it), or when two processes
  look for the key while one of them makes it. `KeyIsShared` excludes the first three by name, and `raced` names
  those who were in such a race: the properties are about all others (`core/backend/auto-start.ts:253`).

## 6. What is not modelled

`PROJECT.json` gives the reason for each part. In short: regular expressions, checksums and
other matching over characters (a detector finds any list of spans); formatting of tokens,
configuration, schemas, audit, health and logging; command lines, prompts and transports; the vision
client (one call); the evaluation harness, benchmarks, generators of test vectors and release scripts.
In modelled parts the following is abstracted: time is a counter or an unordered timeout; bodies are
sequences of sets of values; pixels and scores of spans are left out; what Bun, Node and undici make of
TLS options is theirs; and that the HTTP server delivers no new request after it was stopped is taken
from its documentation. The backend's own ports of the restorer, the codecs, the transformers and the
thinking cache follow the TypeScript function by function and are not modelled a second time; its vault
is, because threads use it.

## 7. The plan

Done, in this order: the vault pool with its abstract store; the core remover; detection with the merge
loop; the streams, thinking replay and the proxy server; the model lifecycle and the redaction endpoint;
auto-start and the token key; the proofs of the first six proof modules; then conversations, the restorer's
passes with synthetic mode, the three clients, the remote clients, and the backend's decoding, images and
proxy; then the proofs about the proxy server, the model lifecycle, auto-start, the remote client, the backend's
threads, conversations, the plugin, the hook and the streams; then those about the installers, the answer of
a detection call, the clients together, the cache of thinking, and the restorer's passes.

Next: of `BackendInv`, the disjointness of merged spans and `SpansAreOrdered` of `SpanDecoding`.

Kept apart for later: the type overrides and the audit events of the core remover, and the contents of the
configuration that `install` writes.
