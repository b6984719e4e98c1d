# Formal models of satclient

TLA+ models, TLC runs and TLAPS proofs for the C sources under
`src/satclient/release/src/`. Each source path below is relative to that
directory.

## The system

satclient runs on an Intel Edison. It reads an LSM9DS0 inertial sensor over
I2C and publishes the readings to AWS IoT over MQTT. An unfinished Azure
Event Hub path (AMQP) authenticates with a shared access token. That token
is signed with a secret key, which is stored AES-256-CFB encrypted and base64
encoded in a file.

| Part | Source | Role |
|---|---|---|
| Base64 codec | `crypto/openssl/cryptoutil.c` 590-777 | OpenSSL BIO encode/decode and the decoder's size arithmetic |
| Container parser | `cryptoutil.c` 240-284 | splits `Salted__` + salt + ciphertext |
| Key derivation | `cryptoutil.c` 288-329 | EVP_BytesToKey(SHA-256) for the key and iv |
| Stream cipher | `cryptoutil.c` 333-406 | AES-256-CFB |
| HMAC | `cryptoutil.c` 410-464 | HMAC-SHA256 with a 32-byte key |
| Credential loader | `cryptoutil.c` 34-236, `cloud/azure/authutil.c` 207-253 | reads the file and the passphrase, then decrypts |
| Token issuer | `authutil.c` 61-203 | `create_shared_access_token` |
| Claim authenticator | `authutil.c` 32-57, 264-285 | a stub: it returns true |
| Event hub, AMQP client | `cloud/azure/eventhub.c`, `io/amqp/.../messagingclient.c` | connect and publish |
| Processor | `processor/lsm9ds0processor.c`, `main/main.c` | poll, convert and publish loop |
| IMU driver, I2C | `ic/imu/lsm9ds0.c`, `io/i2c/intel-mraa/i2cdevice.c` | register access |
| IoT gateway | `cloud/aws/iotdevicegateway.c` | MQTT QoS0 publish |

How they interact: `create_shared_access_token` calls the loader, then
`compute_base64_decode`, `compute_sha256_hmac` and `compute_base64_encode`.
The loader itself calls `load_base64_encoded_openssl_payload` and
`decrypt_base64_encoded_openssl_payload`. The decrypt function in turn calls
the base64 decoder, the container parser, key derivation and the cipher.

The credential and event hub code runs on one thread with no callbacks. Its
hard parts are its many error paths, with their ownership of heap buffers,
the erasure of secrets, and boundary arithmetic. The processor loop has one
program thread too, but the sensor is a second actor: it samples at its own
data rate and writes its output registers while the program reads them.

`new_event_hub` calls `new_messaging_client`, `create_service_bus_endpoint`,
`create_shared_access_token` and `authenticate_claim`.
`publish_telemetry_to_event_hub` calls `publish_message`.
`perform_lsm9ds0_sat` (called by `main`) initialises the IMU over I2C and the
AWS gateway, then polls, reads and publishes.

## Modules

- **CryptoUtil**: the constants of `cryptoutil.c` (lines 19-26) and its pure
  size arithmetic.
  - A base64 text is abstracted to a record `[len, eq]`: its number of
    characters and its number of `=` characters.
  - `EncodedText(n)` is what the BIO encoder writes for `n` bytes.
  - `DecodeByteArraySize` is line 772, with the padding scan of lines 754-768.
  - `BioDecodedCount` is what `BIO_read` returns. Complete 4-character blocks
    are decoded. A trailing partial block is an error, and the read returns
    the bytes decoded before it.
  - `SignedWrap` is the two's-complement wrap of `time_t`.
- **CredentialIssuance**: one call of `create_shared_access_token` and every
  function it reaches, as a state machine over the program counter `pc`.
  Each action is one C function, or one stretch of straight-line code
  between two calls:

  | Action | Source |
  |---|---|
  | IssueBegin | `authutil.c` 79-98 |
  | LoadPayload | `cryptoutil.c` 34-118 |
  | DecryptBegin | passphrase, 140-157 |
  | DecodePayload | `compute_base64_decode` |
  | Extract | |
  | Derive | |
  | Cipher | |
  | DecryptExit | the trim and the frees, 182-236 |
  | TextString | `load_base64_encoded_secret_key` after the decrypt |
  | AfterLoad | `authutil.c` 103-113 |
  | DecodeKey | 114-122 |
  | Hmac | `compute_sha256_hmac` plus the memset at 128 |
  | EncodeHmac | 131-139 |
  | FormatToken | 140-166 |
  | IssueExit | the frees, 167-203 |

  **State.** `heap` maps each of 17 pointer variables to `null`, `undef`
  (uninitialized), `live` or `dangling` (freed). Other variables:
  - `secret`: the buffers that hold key material and are not yet zeroed;
  - `faults`: the undefined behaviours the call has performed (double free,
    invalid free, use after free, uninitialized read, out-of-bounds access);
  - `disclosed`: secrets printed;
  - `payloadLen`, `plain`, `keyLen`: the lengths the code computes;
  - `expiry`, `tokenSe`: the `time_t` values.

  **Inputs.** Each input is chosen by `\E` from a small set:
  - the file (`Files`): key length, trailing newlines, truncation, and
    whether the `Salted__` header is present;
  - the passphrase answer: EOF, empty, right or wrong;
  - the time (`Times`);
  - for every allocation or library call, whether it fails. This choice is
    made only when `LibMayFail`.

  **Undefined behaviour.** Reading or freeing an undefined pointer, or
  comparing an uninitialized size, is modelled as a nondeterministic choice
  over the outcomes, and it logs a fault.
- **Base64Codec**: the codec on its own. `Encode(n)` is any byte count.
  `Decode(t)` is either the text just encoded or any text up to `MaxChars`.

- **SatProcessor**: `perform_lsm9ds0_sat` with the IMU driver and the I2C
  device, and the sensor as a concurrent process.
  - Program actions: `InitAccelMagnetoDevice` and `InitGyroDevice`
    (`init_i2c_device`), `InitSensors` (`init_lsm9ds0`, the three control
    register writes in `InitOrder`), `InitGateway`, `Poll` (one status
    register read of `poll_for_signal_readings`, lines 124-140), `ReadLow`
    and `ReadHigh` (the two halves of a six-byte `read_bytes`, lsm9ds0.c
    184-236), `Publish` (convert, publish at QoS0, advance the id, lines
    51-66) and `Shutdown` (lines 80-91: disconnect and stop the contexts).
  - `Sample(s)`: sensor `s`, once configured, overwrites its outputs and sets
    data-ready. With block data update off (lsm9ds0.c:90), a sample that
    lands between `ReadLow` and `ReadHigh` tears the reading.
  - State: `pc`, `seq` (the `sequence_id`), the contexts `i2c`, the gateway
    state, the data-ready bits `ready`, the loop's flags `avail`, and
    `published`, the sequence of records `[id, stale, torn]` the gateway was
    handed. Bus failures are counted in `busFaults` and bounded by
    `MaxBusFaults`.
- **EventHub**: `new_event_hub`, `init_event_hub`, the messaging client, the
  service bus endpoint and `authenticate_claim`, `publish_telemetry_to_event_hub`
  and `free_event_hub`.
  - `heap` gives each block the hub allocates (hub, client, messenger,
    message, endpoint, token, $cbs endpoint) the state `unalloc`, `live` or
    `freed`. `FreeBlocks` is `free` of those that are live; freeing a freed
    block adds `double_free` to `faults`.
  - `NewMessagingClient` picks how many of malloc, `pn_messenger`,
    `pn_messenger_start` and `pn_message` succeed, and undoes the earlier
    ones as the code does. `CreateServiceBusEndpoint` with a failed
    `asprintf` frees an indeterminate pointer (`invalid_free`).
  - `AuthenticateClaim` has the code's three outcomes: the $cbs endpoint is
    built and true is returned; its `asprintf` fails; or the endpoint or
    token is missing. The last two free the endpoint and token, and
    `HubInitFailed` frees the hub, leaving the messaging client live.
  - `authority` is the verdict the $cbs node would give. The code never asks
    for it, so it is an unconstrained initial choice.
  - `PublishTelemetry` counts calls in `sent`. It counts in `lost` those
    whose put or send failed: `check()` only prints and true is returned.

## Runs

| Run | Config | Result |
|---|---|---|
| issuance | `MC_CredentialIssuance.cfg` | pass, 1516 distinct states |
| codec | `MC_Base64Codec.cfg` | pass, 663 distinct states |
| sat | `MC_SatProcessor.cfg` | pass, 22008 distinct states |
| eventhub | `MC_EventHub.cfg` | pass, 123 distinct states |
| secret_not_erased | `MC_CredentialIssuance_SecretNeverLoggedAndErased.cfg` | violation |
| leak_on_return | `MC_CredentialIssuance_NoLeakOnReturn.cfg` | violation |
| undefined_behaviour | `MC_CredentialIssuance_NoUndefinedBehaviour.cfg` | violation |
| malformed_container | `MC_CredentialIssuance_MalformedContainerRejected.cfg` | violation |
| extra_publish | `MC_SatProcessor_PublishCountWithinLimit.cfg` | violation |
| stale_reading | `MC_SatProcessor_FreshReadingsPublished.cfg` | violation |
| torn_reading | `MC_SatProcessor_UntornReadingsPublished.cfg` | violation |
| claim_unverified | `MC_EventHub_ClaimVerifiedBeforeUse.cfg` | violation |

**issuance** checks these properties:
- `NoDoubleFree` and `NoUseAfterFree`;
- `IssuerLeakFree`: at return, no buffer the issuer owns is still live;
- `IssuedTokenUnexpired`: a live token carries `se = now + 3600` with no
  wrap;
- `KeyErasedWhenIssued`: when a token exists, the key text and the binary
  key have been zeroed;
- `TokenHandedOver`, an action property: once `asprintf` has built the
  token (`authutil.c:154`), no later step frees it or changes its `se`;
- the type invariant.

**codec** checks `DecodeInvertsEncode`: decoding what was encoded succeeds
and yields the original length.

**sat** checks these properties:
- `SequenceIdsGapFree`: the readings handed to the gateway carry ids 0, 1,
  2, ..., however reads fail and the sensors sample in between;
- `Termination`: `perform_lsm9ds0_sat` returns, by the limit or by a failure;
- the type invariant.

**eventhub** checks these properties:
- `HubOwnership`: a hub that is handed out has a live client, messenger,
  message, endpoint and token, and after `free_event_hub` all are freed;
- `NoDoubleFree`, on every failure path.

Each violation run checks one property that the spec (`spec.md`) or a code
comment states, and shows how the code breaks it:
- **secret_not_erased** (`SecretNeverLoggedAndErased`, spec sections 3 and
  5): the passphrase, the derived key and iv, and the key text on failure
  are freed without being zeroed, and the key is printed at
  `authutil.c:105`.
- **leak_on_return**: the payload text is never freed.
- **undefined_behaviour** (`NoUndefinedBehaviour`): an empty file makes the
  loader read index -1 (`cryptoutil.c:89`); after a failed `asprintf` an
  undefined pointer is printed and freed; a failed EVP call leaves the
  caller's uninitialized size to decide success (`cryptoutil.c:381`).
- **malformed_container** (`MalformedContainerRejected`, spec sections 4.2
  and 8): `Salted__` is never compared, and a 4k+1-character base64 text is
  accepted with its last character dropped.
- **extra_publish**: `Limit + 1` readings are sent, where `main.c:10` asks
  for `Limit`.
- **stale_reading**: the poll exits when any one sensor is ready, and old
  samples of the other two are published (comment at line 123).
- **torn_reading**: block data update is off, so a published x/y/z triple
  can mix two samples.
- **claim_unverified** (spec section 4.8): `authenticate_claim` returns true
  without sending the token, so telemetry is published on a hub whose
  token $cbs would reject.

PROJECT.json lists these as findings.

### Bounds

**MC_CredentialIssuance.** `TimeBits = 13` and `Times = {100, 4000}`.
- 4000 + 3600 exceeds 2^12, so the expiry wraps negative and the
  `token_expiry > 0` guard is exercised.
- The six files cover these cases:
  - a well-formed container;
  - an empty file (the -1 index);
  - a truncated file (a partial base64 block);
  - a container without `Salted__`;
  - an empty key with and without a newline. Without the newline the
    payload is exactly 16 bytes, which is the `> 16` boundary of the
    container parser.
- With `LibMayFail = TRUE` every allocation and library call can fail, so
  every error path is reached.

**MC_Base64Codec.** Up to 12 bytes and 17 characters. This covers every
residue of the length modulo 3 and modulo 4, with several blocks each.

**MC_SatProcessor.** `Limit = 2`, `MaxBusFaults = 2`, `IoMayFail = TRUE`.
- The loop's exit test fails twice before it holds, so a full run
  publishes three readings.
- Two bus failures can hit a poll and a read, or the same stage twice.
- Every initialisation call can fail, so every shutdown path is reached.

**MC_EventHub.** `MaxPublishes = 3`, `LibMayFail = TRUE`.
- Each of the four steps of `new_messaging_client` can be the first to
  fail.
- The endpoint, the token and the $cbs endpoint can each fail.
- Three publishes let lost and delivered messages mix.

### Fairness and deadlock

The credential, codec and event hub runs model one call, which always
returns. Their final states (`done`, `freed`) are real ends, so those runs
say `CHECK_DEADLOCK FALSE` and assume no fairness. In the event hub model,
"ready" with the publish bound reached is also a final state.

SatProcessor's `Spec` assumes two kinds of weak fairness:
- `WF_vars(Program)`: the program thread is not descheduled for ever.
- `WF_vars(Sample(s))` for each sensor: a configured sensor keeps sampling
  at its output data rate, as the hardware does.

Bus failures are not left to fairness. They are bounded by `MaxBusFaults`,
so `Termination` assumes that I2C failures do not persist. Without the
bound, an I2C bus that always fails keeps the loop polling for ever. That
case is the liveness hazard at `lsm9ds0processor.c:37`, and `Termination`
does not catch it: it holds because of the bound. The sat run also
says `CHECK_DEADLOCK FALSE`, because the program stops at `done`.

## Proofs (TLAPS)

**CredentialIssuanceProofs** proves two theorems for every time width
`TimeBits`, every set of times below `2^(TimeBits-1)`, every set of files
and both values of `LibMayFail`:
- `TypeCorrect`: `Spec => []TypeOK`.
- `TokenUnexpired`: `Spec => []IssuedTokenUnexpired`.

Their inductive invariant `IInv` is made of these parts:
- `TypeCtl`, `TypeMem` and `TypeData`: the type, split three ways so that
  each SMT obligation stays small;
- `PayloadPastHeader`: after the container parser, the payload is longer
  than 16 bytes. This is what keeps the ciphertext length a natural number.
- `ExpiryKept`: after the first step, `expiry = SignedWrap(now + 3600)` and
  `expiry > 0`;
- `TokenKept`: a live token carries `tokenSe = expiry`.

`IssuedTokenUnexpired` is not inductive alone, because it says nothing about
the expiry before the token exists. `ExpiryKept` carries the checked value
forward. The lemma `NoWrapWhenPositive` then shows that a positive wrapped sum
equals the true sum, because `now < 2^(w-1)` and `3600 < 2^(w-1)`.

**Base64CodecProofs** proves `RoundTrip`: `Spec => []DecodeInvertsEncode`
for every `MaxBytes` and `MaxChars`, that is for every byte count. It uses
the arithmetic lemma `RoundTripArithmetic`, which does a case split on
`n % 3`. Its invariant pins `decoded` to what `compute_base64_decode`
returns for `input`. The codec's type invariant is only a step of that
proof: the sizes it bounds come from the model of OpenSSL's BIO, not from
the repository's code, so no run checks it.

**IssuerLeakProofs** proves `LeakFree`: `Spec => []IssuerLeakFree`, under
the same assumptions. `IssuerLeakFree` is not inductive alone, so the
proof adds `OInv` to `IInv`. Its main part, `Tracked`, says that every live
block the issuer owns is on a free list that is still to be walked:
`cclean`, or `dclean` while the decryptor runs. `DecryptPhase` leaves out
`decryptBegin`, because that step reassigns `dclean`. With `Tracked`, the
last frees (`Release(heap, cclean)`) leave nothing live.

**IssuanceSafetyProofs** proves four more theorems under the same
assumptions:
- `IssuanceNoDoubleFree`: `Spec => []NoDoubleFree`;
- `IssuanceNoUseAfterFree`: `Spec => []NoUseAfterFree`;
- `KeyErased`: `Spec => []KeyErasedWhenIssued`;
- `TokenHandedOverProved`: `Spec => TokenHandedOver`, the action property.

Neither memory property is inductive alone: whether a free or a read is
defined depends on what earlier steps freed. `MInv` states which blocks
those can be:
- `DanglingFreed`: only a block in `MayBeFreed` dangles. That set is the
  plaintext (freed by a failed cipher call or by the loader), the escaped
  signature (`curl_free`), the decryptor's free list once it has been
  walked, and the issuer's once the call has returned.
- `FreeListsKept`: the two free lists hold only their own function's
  blocks (`DecryptFrees` and `IssuerFrees`), which are disjoint. So walking
  one never frees a block of the other.
- `PlaintextHeld`: `operation_status` is only set together with the
  plaintext's allocation. So the dangling plaintext of a failed EVP call
  never reaches `load_base64_encoded_secret_key`.

The lemma `NotYetFreed` turns `MInv` into the facts each step needs: the
blocks it frees or reads are not dangling. `KInv` says that the key text
leaves `secret` before `compute_sha256_hmac` and the key bytes before the
token is built, and that a live token exists only at `issueExit` or
`done`. `TokenHandedOverProved` uses `TokenKept` and `FreeListsKept`: the
only step after the token is built walks `cclean`, which never holds the
token.

**SatProcessorProofs** proves two theorems for every `Limit` and every
`MaxBusFaults`:
- `SatTypeCorrect`: `Spec => []TypeOK`;
- `IdsGapFree`: `Spec => []SequenceIdsGapFree`.

The invariant `IInv` adds `IdsTrackCount` to the type. While the loop runs,
`Len(published) = seq`. Once the limit has been reached, it is `seq + 1`,
because the id is not advanced after the last publish. Only `Publish`
appends, so the next record always gets id `Len(published)`.

The type is split into `TypeStr`, `TypeNum`, `TypeBool`
and `TypeMaps`. Boolean-valued facts go to Zenon and arithmetic and sequence
facts go to SMT, because neither backend handles both.

**EventHubProofs** proves two theorems for every `MaxPublishes` and both
values of `LibMayFail`:
- `HubOwned`: `Spec => []HubOwnership`;
- `NoBlockFreedTwice`: `Spec => []NoDoubleFree`.

Neither is inductive alone: `free_event_hub` and the failure path of
`init_event_hub` free without checking. `IInv` adds what each step of the
init leaves behind:
- `HubLiveOnFailure`: before the failure path, the hub is live;
- `ClientLiveDuringInit`: from the endpoint step to the authentication, the
  hub and its client are live;
- `EndpointNotFreedDuringInit`: until the init ends, the endpoint and token
  are not freed.

With these, every `free` frees a live block or NULL. The lemma
`FreeBlocksType` gives what `FreeBlocks` returns.

Every proof has one lemma per action, then `NextIInv`, then the temporal step
`BY ..., PTL DEF Spec`. The assumptions are these, and TLC evaluates each of
them on the runs of its module:
- `Assumptions` in CredentialIssuance;
- `CodecBounds` in Base64Codec;
- `SatAssumptions` in SatProcessor;
- `EventHubAssumptions` in EventHub.

### Checked by TLC only

- `Termination`. TLAPS does not handle liveness under fairness or `ENABLED`.
- Everything about the violation runs. Those properties do not hold, and
  TLC gives the counterexamples.

Every invariant and action property of a passing run has a theorem.

## Not modelled

- **Leak freedom of the event hub.** The model keeps the leaked messaging
  client (`eventhub.c:81`) and the $cbs endpoint live, but no run states
  leak freedom.
- **Lost AMQP messages.** The model counts them in `lost`, but no property
  states anything about them, because the code promises nothing about
  delivery.
- **The library calls themselves.** The calls into `mraa`, Qpid Proton,
  OpenSSL and the AWS SDK are pure I/O. Each is modelled only as success or
  failure.
- **The numeric conversion of readings.** `lsm9ds0.c` scales the readings to
  floats, and the model abstracts the values away.
- **`write_bytes`.** `i2cdevice.c`'s dropped last byte (line 161) is in a
  function the program never calls, so the program cannot meet it.
- **`compute_sha256_hmac_2` and `compute_base16_encode`.** They are not
  called on the issuing path.
