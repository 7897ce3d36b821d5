# TLA+ models of the dYdX v4 C++ client (`src/v4-client-cpp`)

This directory holds TLA+ models of the C++ client library. Each module is
written from the library's source. The models are checked with TLC.

## 1. The system

The library lets a program that holds a mnemonic build, sign and broadcast
dYdX v4 transactions (orders, cancels, transfers). It can also read the
indexer and the node over REST and WebSocket. Its parts, leaf first:

| Component | Source | State it keeps | Operations |
|---|---|---|---|
| KeyDerivation / AddressEncoder | `account_info.cpp` `FromMnemonic`, `calc_fingerprint`, `to_5bits` | none; returns a `LocalAccountInfo` | BIP39 seed, BIP32 derivation along `m/44'/118'/0'/0/0`, SHA256+RIPEMD160, 8-to-5-bit regrouping, bech32 |
| AccountInfo | `account_info.h/.cpp` | `account_number` (uint32), `sequence` (uint64), the local identity | `Retrieve` (GET account, -1/0 on a "code" answer), `IncreaseSequence`, JSON mapping without `sequence` |
| ExchangeInfo | `exchange_info.h/.cpp` | chain id, fee price/denom, `symbol -> InstrumentInfo` map | `Retrieve` (indexer markets), `GetInstrumentInfo` (`std::map::at`, throws on unknown symbols) |
| QuantizationEngine | `proto.cpp` `ToProtoQuantums`, `ToProtoSubticks`, `ToProtoQuantumsUSDC` | none | double arithmetic: scale, round to step, floor at one step; USDC amounts are truncated |
| MessageBuilder | `proto_constructors.cpp`, `proto.cpp` `Create*Message`, `composite_client.h` `ConvertToLowLevel`, `GetClientMetadata` | none | order id (flags 0/64/32), good-till block or time, condition type, client metadata default |
| TransactionSigner | `proto.cpp` `SignMessage`, `SignMessageProto`; `signing.cpp` `Sign` | none; reads the AccountInfo | Tx body + auth info (fee, signer info with sequence), SignDoc with account number, ECDSA; two-pass simulate-then-sign when no gas limit is given |
| CompositeClient | `composite_client.h` | a broadcast mode and optional REST clients; mutates the caller's `AccountInfo&` | PlaceOrder / CancelOrder (short- and long-term), Transfer, Deposit, Withdraw: build, sign, broadcast, then `IncreaseSequence` for all but short-term |
| RestClient | `requests/base.cpp` | none | blocking HTTP(S) request with no timeout; empty body -> null JSON; transport errors throw |
| REST endpoint clients, UrlPath | `node_grpc_gateway.h`, `indexer.h`, `faucet.h`, `util.h` | none | URL and body formatting |
| WsClient / IndexerWsClient | `streams/base.cpp`, `streams/indexer.h` | the session coroutine, a message callback, a write strand | `Run` (resolve, connect, TLS and WS handshakes, read loop), `SendMessage` (strand-dispatched synchronous write), PING -> PONG, subscribe/unsubscribe messages |
| base64, enums, constants | `base64.cpp`, `enums.h`, `constants.h`, `types.h` | none | encoding, string tables, type widths |

### How the parts interact

- The caller builds an `ExchangeInfo` and an `AccountInfo` once. Both come
  from REST queries.
- For each operation, `CompositeClient` does three things in order:
  1. It converts the parameters. The default good-till block comes from a
     node query.
  2. It builds the message through the quantization and constructor
     functions, and signs it with the AccountInfo's sequence and account
     number.
  3. It posts the bytes to the node.
- Transfer, deposit and withdraw sign twice: first with gas 0, which is
  simulated on the node, then with 1.65 times the gas used.
- Every operation except the two short-term ones then increments the
  caller's sequence. This happens whatever the response says.
- The chain consumes a sequence only for a transaction it accepts. On dYdX,
  short-term order placements and cancels skip the sequence check.
- The WebSocket client runs a coroutine on its own `io_context`. The
  library's callback answers `PING` and forwards everything else to the
  user's callback. The user's callback usually subscribes when it sees
  `connected`. Writes are dispatched through a strand of the same context.

### What is hard

- **The sequence.** The client keeps a copy of chain state. It updates that
  copy by rule, not from the chain's answer. A rejection, a lost response,
  an account that did not exist yet, or two concurrent callers each move the
  copy away from the chain. Once the copy is ahead, simulation fails and no
  transfer can succeed until the caller calls `Retrieve` again.
- **Partial failure.** A call can throw before the node has the
  transaction, or after the node has accepted it. The client cannot tell
  these apart.
- **Numerics.** Quantization uses doubles. `std::round` rounds half away
  from zero and the result is floored at one step. USDC amounts are
  truncated, so 2.01 USDC becomes 2009999 quantums. Widths are uint32
  (account number, block) and uint64 (fee).
- **Callbacks and ordering in the WebSocket session.** The read loop calls
  the callback before it checks the read error. A write can run before the
  handshake has finished.

### What makes each component correct

| Component | Properties |
|---|---|
| CompositeClient + AccountInfo | The sequence never falls behind the chain unless a response was lost. It runs ahead only after a rejection. It is in step after every accepted transaction. Every transaction is signed with the chain-assigned account number. |
| TransactionSigner | Both passes sign the same message with the same sequence. Only an estimated-gas transaction is broadcast for balance operations. |
| QuantizationEngine | Quantums and subticks are the nearest multiple of step/tick, at least one step. Exact multiples are fixed points. USDC amounts with at most 6 decimals convert exactly. |
| MessageBuilder | Order flags match the order class. Exactly one good-till field is set. A cancel built for an order carries that order's id. The default client metadata is 1 exactly for IOC/FOK. |
| WsClient | The user callback only sees complete server messages. Writes happen only on an open stream. A PING is always answered. |

## 2. Modules and runs

### `CompositeClient` (with `MC_CompositeClient`)

This module models the CompositeClient transaction calls, AccountInfo and
the two-pass SignMessage. A chain node is over-approximated as an
environment.

- **State.**
  - `account`: the caller's AccountInfo (`number`, `sequence`).
  - `pc`, `op`, `tx`: the running call, and the transaction it signed
    (kind, sequence, account number, zero or estimated gas).
  - `result`: what the call returned, a response code or an exception.
  - `chain`: the node's account (`exists`, `sequence`).
  - Two ghost flags, set since the last Retrieve: a delivered rejection
    of a sequence-checked transaction, and an accepted transaction whose
    response was lost. The properties only ask whether either happened.
- **Actions.**
  - `StartOrder(o)`: `ConvertToLowLevel`, then `Create*OrderMessage`. It
    may throw: an unknown symbol, or a failed block-height query.
  - `StartBalanceOp(o)`: the first, gas-0 signature of
    `Create{Transfer,Deposit,Withdraw}Message`.
  - `Simulate`: `SignMessage`'s estimator (`GetGasLimitEstimator`), then the second signature. It
    throws on a transport error or a missing `gas_info`.
  - `Broadcast`: `BroadcastTransaction` followed by `IncreaseSequence`. It
    has three outcomes: the request never reached the node, the node
    decided and answered, or the node decided and the answer was lost.
  - `Retrieve`: `AccountInfo::Retrieve`. It has three outcomes: throws,
    account found, or "code" (account number -1, sequence 0).
  - `Fund`: environment; the account is created.
- **Initial state.** The caller starts from `AccountInfo::Retrieve` on the
  chain, as the example's `main` does. The account may or may not exist
  yet.
- **The environment's rules.**
  - CheckTx accepts when the account exists, the signature verifies (the
    signed account number is the assigned one), and, unless the message
    is a short-term order, the sequence equals the chain's.
  - It may also reject for other reasons when `MayRejectOther` is set.
  - `/simulate` checks existence and sequence, but not the signature.
- **Data abstracted.** Symbols, prices, sizes, amounts, gas numbers, fees
  and the bytes are left out. No property tells them apart.
- **Bounds.**
  - `MaxSequence = 3` leaves room for an accepted transaction, a rejection
    and a lost response in one behaviour.
  - `ChainAccountNumber = 7`.
  - The -1 sentinel is a model value, because 2^32-1 is beyond TLC's
    integers.

| Run | cfg | Expect | Shows |
|---|---|---|---|
| `sequence` | `CompositeClient_sequence.cfg` | pass | The environment may reject, lose responses, and start with the account unfunded. Under all of these, `NoSequenceReuse`, `RunsAheadOnlyAfterRejection` and `AcceptedKeepsSync` hold. The client's drift from the chain comes only from these two environment events, and a success always re-aligns it. `SignsAtomically` holds too: the two-pass signing implements `AtomicSigner` (see below). |
| `insync` | `CompositeClient_insync.cfg` | violation | `InSync` fails in two steps. A long-term order is rejected for an ordinary reason, and the client's sequence is still incremented. Finding 1. |
| `accountnumber` | `CompositeClient_accountnumber.cfg` | violation | `SignsWithAssignedNumber`, an action property, fails: a step that signs while the account exists must sign with the chain's number. The caller retrieves before funding, the faucet funds the account, and the next order is signed with account number 2^32-1. Finding 2. |

**The abstract signer, `AtomicSigner`.** This module states what a
transaction call promises, as spec section 4.5 describes the signer.

- One atomic `Sign(o)` step signs with the AccountInfo as it is and hands
  the transaction to the broadcaster.
- A balance operation's transaction carries the estimated gas of a
  successful simulation of that same transaction. An order carries gas 0
  and is never simulated.
- `Complete` ends the call. The chain takes the transaction at most once,
  and the AccountInfo's sequence moves by at most one.
- `Throw`, `Retrieve` and `Fund` are as in CompositeClient.

`CompositeClient` defines `Signer == INSTANCE AtomicSigner WITH ...`. The
mapping hides the first, gas-0 pass of a balance operation: while `pc` is
`simulate`, the abstract signer is still idle, with no operation and no
transaction. `SignsAtomically == Signer!Spec` is checked as a PROPERTY of
the `sequence` run. Its mutant signs the second pass with the first pass's
gas, and the mutant breaks the refinement at the broadcast step.

**Fairness.** None is assumed. The caller need not call anything. The
node's request has no timeout (`base.cpp:80`), so the code guarantees no
progress. Only safety and action properties are checked.

### `Quantization` (with `MC_Quantization`)

This module models `ToProtoQuantums`, `ToProtoSubticks` and
`ToProtoQuantumsUSDC` (`proto.cpp` lines 97-115) as operators.

- **Decimals.** A caller's decimal is `[mantissa, scale]`, the number
  m·10^-s.
- **Doubles.** The double product `x * std::pow(10, e)` is its exact
  rational value plus an error sign `err` in {-1, 0, 1}. For prices and
  sizes, `DoubleErrors` over-approximates: the sign is 0 when the product
  is surely exact (a dyadic decimal and e ≥ 0), and any sign otherwise.
  This is sound for the passing properties. For USDC amounts the sign is
  the one binary64 arithmetic gives: `UsdcProductError`, a table over
  0.01..9.99 in `MC_Quantization`. Of those products 20 lie just below the
  exact value, 14 just above, and the rest are exact.
  The error matters only at a rounding boundary. `std::round` sees it at a
  half, and the truncating cast at an integer. `RoundHalfAway` and
  `Truncate` model exactly that.
- **Actions.** One action per caller (`CallToProtoQuantums`,
  `CallToProtoSubticks`, `CallToProtoQuantumsUSDC`) records the call's
  inputs and result in `last`. `Return` clears it.
- **Reference definitions.**
  - `IsNearestStep`: a multiple of the step, at least one step, with no
    closer multiple.
  - `ContractSubticksExponent`: the contract's exponent.
- **Bounds.** Mantissas are 0..25 and scales 0..2. Instruments have atomic
  resolution -2 and -1, quantum conversion exponents 4 and 5, and steps and
  ticks 1 and 10. These bounds reach the following cases:
  - halves, both below and above the step;
  - values below one step, including 0;
  - non-dyadic decimals such as 0.1, whose double lies on either side.
  The `usdc` run takes every amount from 0.01 to 9.99.

| Run | cfg | Expect | Shows |
|---|---|---|---|
| `pure_encoders` | `Encoding_pure.cfg` (via `MC_Encoding`) | pass | `QuantumsNearestStep` and `SubticksNearestTick` hold for every input and every rounding side. `MC_Encoding` instantiates Quantization on the shared `last` record (see Encoding). |
| `usdc` | `Quantization_usdc.cfg` | violation | `QuoteQuantumsExact` fails: 2.01 USDC, whose binary64 product with 1e6 lies just below 2010000, truncates to 2009999. Finding 3. |

### `OrderMessage` (with `MC_OrderMessage`)

This module models the message builders: the four order messages and the
three balance messages. The state is the set of messages built and the
outcome of the last call.

- **Actions.** There is one action per CompositeClient order operation:
  `PlaceShortTermOrder`, `PlaceLongTermOrder`, `CancelShortTermOrder` and
  `CancelLongTermOrder`. Each combines `ConvertToLowLevel`'s good-till
  default with `CreateProtoMsg*`. A placement also takes a time in force
  and an optional explicit `client_metadata`. `ConvertToLowLevel` applies
  the `GetClientMetadata` default on the library's enum, and
  `CreatePlaceOrderMessage` writes the protobuf time in force through
  `ToProtoTimeInForce`. An action either throws (unknown symbol, or a
  failed block-height query) or adds the message.
- **Balance messages.** `BalanceOperation` is `Transfer`,
  `DepositToSubaccount` or `WithdrawFromSubaccount` up to the built
  message. Each message names a sender and a recipient, either a bank
  address (`BankAccount`) or a subaccount (`SubaccountId`), with an asset
  id and an amount. The amount is `ToProtoQuantumsUSDC` of the caller's
  value, so deposits and withdrawals carry 10^6 times the `Quantums`
  passed (see "Also seen"). `assert(asset_id == ASSET_USDC)` is
  `AssertAbort`: with `NDEBUG` FALSE a non-USDC asset ends the process and
  no action follows (`Running`). With `NDEBUG` TRUE the message is built
  for that asset.
- **Ghost fields.** Each message carries the order the caller meant, so a
  cancel can be related to its placement.
- **Bounds.**
  - Two known symbols and one unknown symbol.
  - Two client ids.
  - One explicit good-till of each kind.
  - All four time-in-force values, and one explicit client metadata (7)
    that differs from both defaults.
  - Two messages, the bound `MaxMessages` in `Build`'s guard, so that a
    placement and its cancel meet, and so do a deposit and a withdrawal.
  - The signer `dydx1me` subaccount 0. Transfer recipients are its own
    subaccount 1 and another owner's subaccount 0. Assets are USDC (0) and
    one other (1), the amount is 5, and the build is a debug build.
  - The cfg turns off deadlock checking: after a failed assert the process
    has ended, so that state has no successor.

| Run | cfg | Expect | Shows |
|---|---|---|---|
| `ids` | `OrderMessage_ids.cfg` | pass | `TypeOK` (flags in {0, 32, 64}), `GoodTillMatchesFlags` and `CancelMatchesPlacement` hold. The place and cancel paths compute flags with different expressions and agree on every order class. `BalanceMovesOwnFunds`: a balance message debits only the signer's bank address or its subaccount. A transfer goes from that subaccount to the recipient the caller named, and a withdrawal of the same amount moves back what a deposit moved. Mutant: the withdrawal built with the deposit's direction. |

### `WsSession` (with `MC_WsSession`)

This module models `WsClient::Run` / `RunSession` (`streams/base.cpp`),
`SendMessage`, the IndexerWsClient callback and its `Subscribe` /
`Unsubscribe` (`streams/indexer.h`), the example's user callback, and a
second thread of the program that calls `Subscribe` or `Unsubscribe`.

- **State.**
  - The coroutine's handshake step or `open` / `ended`.
  - The link.
  - The server's messages in flight and the log of what it sent.
  - The strand's FIFO of dispatched writes.
  - What the server received.
  - The read loop's log and what the user saw.
  - `Run`'s outcome.
  - `requested`: every `Subscribe`/`Unsubscribe` call, in call order, and
    the other thread's call count. A client message is a record of its
    type and channel; the JSON text is abstracted.
- **Actions.**
  - `Establish(i)`: one per handshake step.
  - `ReadLoop`: one read, then the callback. On a failed read, the callback
    receives the empty buffer before the error check.
  - `StrandWrite`: a throwing `m_ws.write`. `SendMessage` uses
    `dispatch`, which runs the write at once when called from the io
    thread with the strand idle. The model always queues it and lets
    `StrandWrite` run it at a later step. That only adds interleavings, so
    the properties that hold here hold for the code.
  - `RunReturns`, plus the environment's `ServerSend` and `LinkFails`.
  - `CallerSends(m)`: the other thread's `Subscribe` or `Unsubscribe`.
    `dispatch` from outside the strand queues the write behind those
    already dispatched. A call made before `Run` is queued the same way, so it
    behaves as one made during `resolve`.
- **Fairness.** `WF` holds on `StrandWrite` only. `io_context::run` keeps
  running ready handlers, so a dispatched write is eventually run. The server
  and the network get no fairness.
- **Deadlock.** Deadlock checking is off. A session that has returned
  stops, and a quiet server legitimately blocks the read loop forever.
- **Bounds.** Four server messages are enough for `connected`, two PINGs
  and an update, for a second PING while the first PONG is still queued,
  and for a failure between any two. Two channels and two calls by
  the other thread let a call land before the handshake, between the
  callback's subscribe and a PONG, and after a failure, and let it
  unsubscribe from the channel the callback subscribes to. The `callback`
  run keeps the other thread off, so that its trace is the reset alone.

| Run | cfg | Expect | Shows |
|---|---|---|---|
| `pong` | `WsSession_pong.cfg` | pass | `PingAnswered`: every PING the callback sees is answered by a PONG the server receives, unless the link goes down. `ServerGetsCallsInOrder`: the subscribe and unsubscribe calls of the callback and of the other thread reach the server in call order with none skipped, because a failed write ends `Run`. |
| `callback` | `WsSession_callback.cfg` | violation | `UserSeesServerStream` fails: after a reset, the user's callback receives an empty buffer the server never sent. Finding 4. |
| `throw` | `WsSession_throw.cfg` | violation | `RunNeverThrows` fails: TLC's trace is a `Subscribe` from the other thread whose write runs before the handshake; with that thread off, a PONG queued when the link fails does the same. Finding 5. |

### `Encoding` (with `MC_Encoding`)

This module checks the pure encoders as RECURSIVE operators and folds,
each against a reference definition or against its own assertions.

- **`to_5bits`** (`account_info.cpp` 40-59). `FiveBitsLoop` and `Drain`
  are the two loops. The masks and shifts are written as remainders and
  divisions by powers of two, which is exact for these non-negative
  values. The reference, `FiveBitDigits`, reads the input bit by bit.
- **`UrlPath`** (`util.h`).
  - `AddArg` on a plain or `std::optional` argument.
  - `UrlPathWithPagination`, with its five optional fields, followed by
    the validators' optional status.
  - The reference, `Query`, puts `?` before the first argument that holds
    a value and `&` before the others.
- **base64** (`encoding/base64.cpp`).
  - `base64_encode`: `PredictedEncodedLen`, then `EVP_EncodeBlock`. The
    assertion compares the two lengths, and the trailing NUL is cut.
    `EVP_EncodeBlock` is OpenSSL's loop: one 4-character group
    (`EncodeGroup`) per pass over 3 bytes, or over the 1 or 2 left at the
    end. Its length comes from the passes, not from the prediction.
  - `base64_decode`: `PredictedDecodedLen` sizes the buffer, and
    `EVP_DecodeUpdate` decodes into it. The function throws on a negative
    return, else resizes to `len`.
  - The OpenSSL routines are modelled by what OpenSSL 3 does. Characters
    are 6-bit values or the model values `Pad` (`=`), `Ws` (whitespace,
    skipped) and `Bad`. `DecodeStep` follows `EVP_DecodeUpdate`'s loop:
    - `=` is kept as 0 bits and counted;
    - an alphabet character after `=` is an error, and so are more than
      two `=`.
  - Kept characters are decoded only when they form whole groups. Padding
    bytes are written and then not counted.
  - Both models were compared with libcrypto 3 through ctypes on every
    input of the bounds below, and agree with it.
- **Composition.** `MC_Encoding` also instantiates `Quantization` on the
  same `last` variable: `PureSpec` is a single caller that makes one pure
  conversion at a time. All the pure conversions are checked in one run.
- **Bounds.**
  - One 5-byte group over bytes {0, 1, 90, 165, 255}. `to_5bits` leaves no
    bit pending after 40 bits, so each group of a 20-byte fingerprint is
    encoded alike. The chosen bytes exercise every pending-bit count.
  - Every chain of up to 5 arguments of the three kinds. The endpoint
    methods of `IndexerRestClient` chain up to 11. `AddArg`'s only state is
    `first`, which changes at the first argument written, so chains of 5
    already take every transition: a first argument written after unset
    ones, after none, and arguments written or skipped after it.
  - Every string of up to 4 bytes over the same byte values for base64,
    i.e. a whole group and each kind of partial group.
  - Every text of 0, 4 or 8 characters over {0, 63, `=`, whitespace,
    invalid} for decoding: 391,251 texts.

| Run | cfg | Expect | Shows |
|---|---|---|---|
| `pure_encoders` | `Encoding_pure.cfg` | pass | `FiveBitsIsRegrouping` and `UrlQueryWellFormed` hold for every bounded input. `EncodeLengthPredicted` holds: the assertion at `base64.cpp:42` is always true. `RoundTrip` holds: decoding what `base64_encode` returns gives the bytes back. `DecodeWithinBuffer` holds: on every text, valid or not, `EVP_DecodeUpdate` writes at most `predicted_len` bytes, padding bytes included. Quantization's two properties hold (above). All seven mutants are caught. |

### `RestRequest` and `RestCall` (with `MC_RestRequest`)

`RestCall` is the abstract specification of a `Get`/`Post` call:

- `Call`, then the server may `Process` the request once.
- `Answer` returns its response, parsed as null for an empty body, a value
  for JSON, or an exception otherwise.
- `Fail` may end the call with an exception at any point.

`RestRequest` models `request()` (`requests/base.cpp`) step by step:

- resolve, SNI, connect and handshake (SNI and handshake on TLS only);
- write, read, and shutdown with its tolerated error codes (`eof` and
  `stream_truncated` on TLS, `not_connected` on plain TCP);
- the parsing in `Get`/`Post`.

The environment acts between the client's steps:

- the server processes a request it has received;
- the server closes its side;
- the connection is reset, which loses what is in flight.

`Abstract == INSTANCE RestCall` maps `reached`, `body` and `outcome`
one-to-one.

- **Fairness.** `WF` holds on the client's steps: `request()` runs on the
  caller's thread and each blocking call returns once the OS completes it.
  The server and the network get no fairness.
- **Bounds.** Both TLS modes and the three body kinds.

| Run | cfg | Expect | Shows |
|---|---|---|---|
| `rest_refines` | `RestRequest_refines.cfg` | pass | `ImplementsRestCall`: a value is returned only after the server processed the request, and it is the server's response. A TLS shutdown that meets a reset after a complete response throws, which is a `Fail` after `Process`. This is the lost response that `CompositeClient` assumes. |
| `rest_returns` | `RestRequest_returns.cfg` | violation | `RequestReturns` fails: a server that never answers leaves `http::read` blocked forever. Finding 6. |

### Findings

1. `composite_client.h:181` (likewise 198, 215, 226, 237):
   `IncreaseSequence` runs whatever the broadcast response says. After one
   rejected long-term order or transfer, the client is one sequence ahead
   of the chain. Every later sequence-checked transaction is then rejected.
   Transfers cannot even be simulated. The only way out is to call
   `Retrieve` again.
2. `account_info.cpp:86`: a "code" answer (the account does not exist yet)
   becomes account number 4294967295. Nothing stops it from being signed
   into every later SignDoc, including after the account is funded.
3. `proto.cpp:106`: `ToProtoQuantumsUSDC` truncates `amount * 1e6`. A
   double just below the exact value loses a quantum: 2.01 USDC becomes
   2009999.
4. `streams/base.cpp:131`: the callback runs before the read's error is
   checked. After a failed read it receives an empty buffer. The example's
   `json::parse` then throws, and `Run` throws with it.
5. `streams/base.cpp:150`: a write dispatched to the strand throws when the
   stream is not open: a `Subscribe` from another thread before the
   handshake has finished (nothing tells that thread when it has, except
   the callback), or a PONG or subscribe queued when the connection has
   failed. The exception escapes `io_context::run`, which contradicts the
   comment at lines 54-57.
6. `requests/base.cpp:80`: no deadline is set on the stream. A node that
   accepts the request and never answers blocks the caller, and
   `GetGoodTillBlock` with it, forever. The spec says lookup failures
   surface to the caller.

Also seen, but not a run: the JSON mapping of `AccountInfo`
(`account_info.h:137`) omits `sequence`, and the member has no
initialiser. No code in the repository reads an AccountInfo back from
JSON, so no state of the model starts from one. It is kept as a hazard.

Also seen, but not a run: `base64_decode` (`base64.cpp:65-73`) checks only
a negative return of `EVP_DecodeUpdate`. OpenSSL skips whitespace and
keeps a partial group buffered. So `"AAA AAAA"` or `"==  "` decodes with
no error to 0 bytes, against the assertions at lines 68-69. A release
build returns the truncated string. The function has no caller in the
library, so it is kept as a hazard.

Also seen, and kept as hazards because the project's runs were
spent on the findings above:

- `CompositeClient::DepositToSubaccount` and `WithdrawFromSubaccount`
  take `Quantums quantums`, but pass the value to `Create*Message`'s
  decimal `amount`. `ToProtoQuantumsUSDC` then scales it by 10^6, so
  5000000 quantums (5 USDC) becomes a request for 5e12.
- The asset id of a transfer, deposit or withdrawal is checked only by
  `assert` (`proto.cpp:243`). A release build signs a non-USDC id with
  USDC scaling, where spec section 8 expects `UnsupportedAsset`.
  OrderMessage models both builds through its `NDEBUG` constant; the `ids`
  run is the debug build.
- After the TLS handshake `RunSession` turns the TCP timeout off
  (`base.cpp:110`) and uses Beast's suggested client timeouts, which have
  no idle timeout and no keep-alive pings. A connection that dies without
  a FIN or RST leaves the read waiting and `Run` never returns. WsSession's
  link failures are always seen by the next read. This is the WebSocket
  counterpart of finding 6.
- `IndexerWsClient::SetMessageCallback` (`streams/indexer.h:41`) assigns
  the user callback without a lock. Called from another thread after
  `Run` has started, it races with the read loop. If it is only late, the
  "connected" greeting is dropped and a program that subscribes on it
  never subscribes. The example sets it before `Run`, as WsSession does.
- A zero step or tick size from the indexer divides by zero in
  `ToProtoQuantums` / `ToProtoSubticks`. The NaN is then cast to
  `uint64_t`, which is undefined behaviour, where spec section 7 says
  malformed metadata must fail.

## 3. Plan for later sittings

1. **CompositeClient**:
   - a two-caller configuration for the single-writer contract (spec
     section 5);
   - the liveness of recovery after `Retrieve` under the fairness of a
     retry loop.
2. **WsSession**. `SetMessageCallback` after `Run` has started (the
   greeting is then dropped by `if (m_user_callback)`).
3. **OrderMessage**. The order side and reduce-only pass-through, if a
   property comes to distinguish them. A release-build (`NDEBUG` TRUE)
   configuration, if the run budget frees a violation run.
4. **RestRequest**. A WITH mapping onto `RestCall` that renames the
   client's variables, and a timeout variant against a late answer.

The project has 11 runs and keeps to at most 12. A new question is added as a property of
an existing run where its configuration fits.

## 4. Not modelled, and why

- The cryptography (BIP39/32, SHA256, RIPEMD160, ECDSA, bech32 checksum)
  is out of TLC's reach.
- Protobuf serialization, JSON parsing and string formatting are
  abstracted to the fields the properties use.
- Request headers and the HTTP status are not modelled. `request()` never
  reads the status, so a JSON error body is returned as a value.
- `enums.h` is `to_string` tables, which are formatting only, and the
  examples contain no state of the library.
- Two callers sharing one AccountInfo is not a run. Spec section 5 makes
  serialising calls per account the caller's contract, so a violation
  there would not be a defect of the library.
