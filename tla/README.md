# TLA+ models of gel-rust

This directory holds TLA+ models of the gel-rust client library (the code under
`src/`) and the TLC configurations that check them. Each module is translated
from the Rust source. Where the code in question is not in this source tree, the
module follows `spec.md` instead, and PROJECT.json marks that definition
`spec_modelled`. `PROJECT.json` records the following for every module:

- the source lines each definition models (`map`);
- the runs and what they show;
- the mutants that each property must catch;
- the findings;
- the hazards of the code.

## 1. Inventory

| Component | Source | State it keeps | Operations | Interacts with |
|---|---|---|---|---|
| Target | `gel-stream/src/common/target.rs` | `TargetInner` = NoTls / Tls / StartTls over a resolved or unresolved endpoint, plus TLS parameters | constructors, `try_set_tls`, `try_remove_tls`, `try_set_port`, queries (`is_tcp`, `path`, `maybe_ssl`, `is_starttls`, `name`) | Connector, Config (`to_tls`) |
| Connector | `gel-stream/src/client/connection.rs` | the target, keepalive and the close-notify flag | `connect` (resolve, connect, keepalive, `init_client`, handshake unless StartTls) | Target, UpgradableStream, the server's listener |
| Acceptor / AcceptedStream | `gel-stream/src/server/acceptor.rs` | `should_upgrade`, the TLS provider, one stored `upgrade_future` | constructors, `bind`, `accept_one`, `poll_next` | listener, UpgradableStream (server side) |
| UpgradableStream, TLS drivers | not in this tree (see `spec.md` 4.1) | upgrade state, TLS session | `secure_upgrade`, read, write, shutdown | Connector, Acceptor |
| TLS error normalization | `gel-stream/src/lib.rs` | none | `SslError::common_error` | callers of connect |
| Message groups | `gel-db-protocol/src/protocol.rs` | none (tables) | tag-to-message tables for Backend, Frontend, Frontend2 | framer, protocol state machine |
| Protocol state machine | not in this tree (`spec.md` 4.4) | phase, TxnState, descriptors | handshake, SASL, parse, execute, sync, dump, restore | framing, codec |
| Scalar codec | `gel-protocol/src/serialization/decode/raw_scalar.rs` | none | `check_scalar`, per-type decode and encode | descriptors, application |
| Configuration | `gel-dsn/src/gel/config.rs` | `Config`, `DatabaseBranch` | `to_tls`, `dsn_url`, builders, `ConnectionOptions::try_into` | Connector (TLS parameters, target) |
| Derived enums | `gel-derive/src/enums.rs` | none | generated decode and `check_descriptor` | codec |
| Tests | `gel-stream/tests/tls.rs`, `tests/functional/src/raw.rs` | test servers | plain and TLS servers, unclean shutdown | Connector, Acceptor |

**Hard behaviours.**

- *Several tasks interleave.* Clients run `connect` while the server's accept loop polls one upgrade future at a time.
- *Partial failures.* Every `?` in `connect` after the socket opened drops a socket that the server has already accepted.
- *Timeouts.* A connect timeout drops the handshake midway.
- *Stalled peers.* A raw peer may never send anything.
- *Boundaries.* The codec has boundary values (`LocalTime`), width truncation (`len as u16`) and recursion over descriptor positions.
- *Config policy.* The configuration has mutually exclusive options and TLS-policy rules that differ from the spec.

**Correctness properties, by component.**

- *Target.*
  - Unix targets reject TLS.
- *Connector and Acceptor.*
  - No connection is lost, duplicated or reordered by `poll_next`.
  - No plaintext application data goes out on a TLS target.
  - Every accepted connection is eventually handed to the server.
- *Codec.*
  - `check_scalar` accepts exactly what the spec's algorithm accepts.
  - Exact-size and reserved-field checks hold.
  - Encoding inverts decoding.
- *Configuration.*
  - Exclusive options are refused.
  - `DatabaseBranch` resolution follows the protocol version.
  - The TLS verify mode and SNI follow the spec.
- *Protocol.*
  - After an ErrorResponse, everything up to ReadyForCommand is discarded.
  - TxnState follows the last ReadyForCommand.
  - There is at most one handshake downgrade.
  - Every result the client reports is the one the server gave that request.

The hazards, each at the line where it bites, are listed in `PROJECT.json`.

## 2. Plan

Modules in order of importance, with the ones done so far marked:

1. **Target** (done): `Target.tla` holds the data and pure operators. `TargetOps.tla` applies the mutators in any order.
2. **Transport** (done): `Transport.tla` composes Connector clients, raw peers and one Acceptor over FIFO socket histories. It EXTENDS Target for the target queries.
3. **Codec** (done): `DescriptorCheck.tla` holds `check_scalar` and every `check_descriptor` as RECURSIVE operators over bounded descriptor blocks, checked against the spec's algorithm. `CodecValues.tla` holds the decoders and encoders of `raw_scalar.rs`, checked against the spec's layout table and for the encode/decode round trip.
4. **Config** (done, except the parts listed in section 7): `Config.tla` covers the builders, `to_tls`, `dsn_url`, `as_credentials` and `tls_ca_pem` (with `to_pem` in `Pem.tla`). `ConnectionOptions.tla` covers `try_into`.
5. **Message groups** (done): `MessageGroups.tla` holds the three `message_group!` tables, every message's tag, and the `auth_status` sub-tags, with dispatch by tag and sub-tag.
6. **Protocol state machine** (partly, spec-modelled; see section 7): `ProtocolAbstract.tla` is the atomic request/response specification. `Protocol.tla` is the client and server over two FIFO channels and is checked to implement it with INSTANCE ... WITH.
7. **Close-notify and shutdown** (next): extend Transport with clean and unclean shutdown, the two drivers' EOF behaviour, and `ignore_missing_tls_close_notify`.
8. **Byte-level framer** (spec-modelled): `mlen`, MessageTooShort and MessageTooLarge, and the rule that a read consumes exactly `mlen + 1` bytes.
9. **TLS error normalization**: not modelled. Section 7 gives the reason.

## 3. Modules and how they map to the code

### Target.tla and TargetOps.tla

An endpoint is reduced to its kind and port:

- `Ip`: `Resolved(SocketAddr)`;
- `Host`: `Unresolved(host, port, _)`;
- `UnixPath`: a Unix address with a pathname;
- `UnixAbstract`: a Linux abstract-namespace address.

Unix endpoints have `NoPort`. A target is `[mode, ep, params]`, as in `TargetInner`.

- `HasPath` is `MaybeResolvedTarget::path().is_some()`.
- `TrySetTls`, `TryRemoveTls` and `TrySetPort` return `<<result, new target>>`, where the result is `Option` as a record.

TargetOps keeps one `target` and the last call's `result`. It has one action per mutator.

`MC_TargetOps` composes TargetOps with ConnectionOptions: the two values a caller sets up before it connects are independent, so `MCNext` interleaves one mutator call on the target with the one `try_into` call on the options.

### Transport.tla

**Client variables:**

- `target`, `keepalive`: the Connector's fields.
- `cphase`: one of init, handshaking, connected, failed, closed.
- `ctls`, `cka`, `cerr`.

**Socket variables.** Each socket is `c2s[p]` and `s2c[p]`. These are append-only histories, with read indices `srd` and `crd`, because TCP is reliable and FIFO.

**Server variables:**

- `accepted`: the listener's accept order.
- `backlog`: sockets accepted and not yet taken by `poll_next`.
- `pending`: `AcceptedStream.upgrade_future`.
- `hs[p]`: server handshake progress.
- `yielded`: the items `poll_next` returned.
- `stls`.

**Actions:**

| Action | Code |
|---|---|
| `ConnectFail` | the `?` on resolve or connect (connection.rs 58-70) |
| `ConnectSocket` | the rest of `connect` up to its first wait on the peer: keepalive (TCP only), `init_client`, then a ClientHello for Tls targets, or a plain stream |
| `SecureUpgrade` | `secure_upgrade` on a connected stream: refused with `SslUnsupportedByClient` or `SslAlreadyUpgraded`, else a ClientHello. The stream code is outside this tree, so this is modelled from spec 4.1 |
| `HandshakeStep`, `SendData`, `Drop` | UpgradableStream, from the spec |
| `UpgradePoll` | one poll of the stored or fresh upgrade future: Pending (stored back), Ready(Ok), Ready(Err) |
| `ServerPoll` | `AcceptedStream::poll_next`: the stored future first, else the next accepted socket |
| `ServerApp` | the server application: a StartTls upgrade, or the plain test server's reply |
| `RawConnect` | a peer that connects and never writes |

**Abstractions:**

- The TLS handshake is Hello → ServerHello → Finished. Certificate verification is a nondeterministic outcome.
- Application data is one message kind, tagged with whether it went through TLS.
- A poll that would run two handshake steps on already-buffered input is split into two consecutive polls. Nothing else in the model can observe the state in between.

### DescriptorCheck.tla

**State:**

- `desc`: the descriptor block received so far. `desc[i+1]` is at `TypePos` i.
- `proto`: protocol 1 or 2.
- `checked`: the last binding checked, with its result.

**Descriptors.** A descriptor is a record of a kind (BaseScalar, Scalar, Range, Enumeration, Tuple), a type id and a reference position. As the server orders a block, a descriptor refers only to positions below its own.

**Actions:**

- `ReceiveDescriptor` appends one descriptor.
- `Invalidate` drops the block.
- `Check(b, pos)` runs `check_descriptor` for binding `b` at `pos`.

**Operators:**

- `CheckScalar` is `check_scalar`. It recurses through `base_type_pos`, and a Scalar without a base matches on its own id only on protocol 2.
- `CheckString`, `CheckStr`, `CheckEnumValue`, `CheckDerivedEnum` and `CheckLeaf` are the per-type `check_descriptor` bodies.
- `CheckDescriptor` adds `Range<T>`, which recurses to the element position.

**Reference.** `SpecAccepts` is spec 4.3's algorithm, written independently: follow the base chain to its end, then compare ids, with the string and enum rules.

### CodecValues.tla

A buffer is a sequence of fields `[w, v]`, one per `put_*`/`get_*` call. A byte string is a sequence of one-byte fields, and `Junk` is a field that lost its last byte.

**State:**

- `sent`: what was written, either an application value or a raw server buffer.
- `buf`: the bytes.
- `res`: the decode result.

**Actions:**

- `ClientEncodes` runs `ScalarArg::encode`.
- `ServerWrites` writes a well-formed or damaged buffer for a type.
- `DecodeBuffer` runs `RawCodec::decode`.

**Operators:**

- Each decoder is an operator: `DecodeDuration`, `DecodeDurations`, `DecodeNumeric`, `DecodeLocalTime`, `DecodeBool`, `DecodeBytes`, and `Decode` by type.
- `EncodeBytes` and `EncodeConfigMemory` are the two `ScalarArg::encode` impls after the integers; a `ConfigMemory` is an `i64` on the wire, so it is one more entry of `FixedWidth`.
- `EncodeRange` builds the range flags byte and its bounds.
- `EncodeVector` writes the `u16` length as `len % 2^16`.

**Reference.** Range and vector decoders are outside this tree; they follow spec 4.3's table. `SpecErrors` is the spec's layout table: it gives the set of errors a buffer deserves.

### Config.tla

**State:** one `cfg` record with the Config fields the queries read:

- `host` and `port`;
- `db` (a DatabaseBranch);
- `user` and `auth`;
- `tls_security`, `tls_ca` and `tls_server_name`;
- `wait` and `cloud_certs`.

`server_settings` is not modelled (see section 7).

**Actions.** `Init` is `Config::default()`. Each builder is an action:

- `WithHost`, which refuses a host `HostType::from_str` rejects;
- `WithDb`, `WithBranch`, `WithUser`, `WithPassword`, `WithWaitUntilAvailable` and `WithTlsCa`.

Each write of a public field with no builder is also an action: `SetSecretKey`, `SetTlsSecurity`, `SetTlsServerName` and `SetCloudCerts`.

**Queries:**

- `ToTls` is made of `RootCert`, `ServerCertVerify` and `Sni`. `Sni` does the SNI rewrite token by token. Host text is a sequence of tokens, so the `replace([':', '%'], "-")` and `starts_with('-')` of the code are modelled by what they do.
- `DsnUrl` is made of `DsnHost`, `DsnPath`, `DsnUserinfo` and `DsnQuery`. It builds a URL record through `SetHost`, `SetPort`, `SetUsername` and `SetPassword`. These keep the url crate's failure cases, which `dsn_url` discards:
  - an opaque host cannot contain ':';
  - port and userinfo need a host.
- `AsCredentials` returns a result record. It has a `panic` outcome for the `expect` on a zero port.
- `TlsCaPem` is `Config::tls_ca_pem`: `None` without a pinned CA, else `to_pem` of the certificates (Pem.tla).

**Reference.** The DSN parser is outside this tree. `ParseDsn` follows the DSN grammar of spec section 6, and `ConnectName` follows the Ambiguous rule of spec 4.5. A DSN without `tls_security` yields `DefaultTlsSecurity`, which is `Default` in the runs. The round-trip property compares verify modes, not `tls_security` itself, so it holds for either choice.

### ConnectionOptions.tla

An option is present or absent. `Params(o)` records, for each Params field, which option it came from and whether it is read with `from_unparsed` or `from_file`. `TryInto` makes the three exclusivity checks in the code's order, then applies the precedence: the credentials file over inline credentials, and the inline CA over the CA file. `Init` lets the caller fill in any subset of the ten options; `Convert` is the one call of `try_into`, which consumes the options.

### Pem.tla

`to_pem` of `config.rs`. A certificate is its DER bytes (0..255). The PEM text is a sequence of symbols: a base64 digit is its value 0..63, and `Pad`, `NL`, `Begin`, `End` (the two armour lines) and `Nul` (a zero byte of the fresh buffer) are named symbols.

- `Base64` is RFC 4648 padded encoding, digit by digit.
- `BufLen` is the buffer size `len * 4 / 3 + 4`, and `EncodeSlice` is `encode_slice` into it: an error (the `unwrap` panics) when the buffer is too short, else the digits followed by `Nul`s.
- `Truncate`, `Chunks` and `PemBlock` are the loop body: truncate to the written length, split into 64-digit lines, armour.
- `ToPem` concatenates the blocks.

**Reference.** `ParsePem` is a reader written from RFC 7468 (strict form) and RFC 4648, independently of the writer: it splits the text into lines, requires each block to be BEGIN, full 64-digit lines, a last line of 1..64 digits, END, and decodes the digits.

### MessageGroups.tla

This module holds data only.

- `Backend`, `Frontend2` and `Frontend` are the three `message_group!` lists of `protocol.rs`.
- `BackendTag` and `FrontendTag` give each message struct's `mtype`. `AuthStatus` gives the fixed `auth_status` of the four messages that share `'R'`.
- `Wire(m)` is what a reader sees before it picks a decoder: the tag, the sub-tag, and the layout the writer used.
- `Decode(group, w)` is the dispatch of spec 4.2. The `message_group!` macro that does it is outside this tree. It picks the one message of the group with that tag and, where the message has one, that sub-tag. Otherwise it returns `UnexpectedMessage`.
- `FrontendFor(ver)` picks the group for a negotiated major version. Version 3 and up uses `Frontend` (Parse, Execute, Dump3). Version 2 uses the legacy `Frontend2` (Parse2, Execute2, Dump2).
- `TransactionState` and `Cardinality::is_optional` (`IsOptional`) are translated from the code.

### ProtocolAbstract.tla

This is what a connection promises its caller.

- **State:** `state` (connecting, idle or closed), the transaction state `txn`, and `log`, the sequence of completed requests with their results.
- **Actions:** `Connect`, `Close`, and `Run`. `Run` completes one request atomically.
- **Server semantics.** `ServerRun(t, op)` lists the outcomes the server may give a request in transaction state `t`:
  - a failed command fails an open transaction;
  - a failed transaction refuses everything but a rollback;
  - a rollback always returns to no transaction.
- **Results.** `Result` turns an outcome into the caller's result: `error`, or `nodata` for zero rows under a cardinality that is not optional (spec 4.4).

### Protocol.tla

This module is spec-modelled: the client state machine is outside this tree. It models one client and its server over two FIFO channels `c2s` and `s2c`.

**Messages.** Each message is `Env(m, arg)`: its wire view plus one argument, a version, a transaction state or a request. The client encodes with `FrontendFor(cver)` and decodes with `Backend`. The server decodes with `FrontendFor(sver)`. The ghost variable `garbled` records a message decoded with a different layout than it was sent with.

**Client state:** `cstate`, `cver`, `downgraded`, `ctxn`, the pending request `creq` and its `cphase`, `crows`, `cerr`, and the result log `clog`.

**Client actions:**

- `CDowngrade` answers a lower ServerHandshake once.
- `CAuthOk`, `CSasl` (InitialResponse, Response, Final), `CAuthError` (terminal), `CInfo` and `CReady` run the connect.
- `CRequest` pipelines Parse and Execute; `CDump` and `CRestore` (with `CRestoreStream`) run the sub-streams. All three go through `CBegin`.
- `CStep` collects the description, data rows and completion.
- `CError` sends Sync after an ErrorResponse; `CDiscard` then discards up to ReadyForCommand.
- `CComplete` ends the request at ReadyForCommand, with its result and transaction state.
- `CTerminate` sends Terminate and closes.
- `CCancel` is the caller's `cancel()` of an in-flight request (spec 5). The state machine does not advance: the phase and the answers still on the wire stay as they were, and the connection becomes `Inconsistent`. `CCloseInconsistent` then closes it by dropping the transport, with no Terminate.

**Server actions.** The server is the client's environment:

- version negotiation;
- trust or SASL authentication, with possible rejection;
- Parse, which may fail a query;
- Execute, Dump and Restore, which follow `ServerRun`;
- restore blocks that may fail;
- skipping up to Sync after an error;
- Sync, Terminate, and one spontaneous LogMessage.

**Refinement.** `ABS` instantiates ProtocolAbstract with `state` from `cstate`, `txn <- ctxn` and `log <- clog`. The abstract `Run` step is the client's `CComplete`. The abstract `Run` admits any result the server could have given in the current transaction state. So in the no-transaction state, `Refines` alone would also admit a success reported for a server error. `ResultsAsServerGave` closes that gap. The server records each outcome it gives in the history variable `sres`, which no action reads, and the invariant requires the client's log to match it entry by entry. Every other client and server step is a stutter, or the abstract `Connect` or `Close`. An `Inconsistent` connection maps to the abstract `closed`, so `CCancel` is an abstract `Close`. `Refines` therefore also checks that a cancelled connection is never used again. The mutant `CCancelReusable` returns the connection to Idle instead. With it, TLC finds a request that completes with the dropped request's answers and transaction state.

## 4. Runs

| Run | Expect | Shows |
|---|---|---|
| `target_ops` | pass | the targets' type invariant under every sequence of mutators; `ConnectionOptions::try_into` refuses exactly the exclusive pairs and otherwise drops no option |
| `target_unix_tls` | violation | `UnixTargetsRejectTls`: a Unix target in the Linux abstract namespace accepts TLS parameters and becomes a Tls target (finding) |
| `transport_safety` | pass | no lost or reordered connection; no plaintext after TLS was required |
| `transport_liveness` | pass | with well-behaved clients, every accepted connection is yielded |
| `transport_hol_blocking` | violation | one silent peer blocks all later accepts on a TLS acceptor (finding) |
| `descriptor_check` | pass | `check_descriptor` is sound against spec 4.3, and complete off Enumeration descriptors, for blocks of up to 3 descriptors on both protocols |
| `descriptor_enumvalue_enum` | violation | the owned bindings of an enum parameter refuse an Enumeration descriptor: `String` calls `check_scalar` only, and `EnumValue` refuses every descriptor (finding; `Leaves <- MCOwnedEnumLeaves`) |
| `codec_values` | pass | every decoder accepts exactly the spec's valid buffers and names a spec error otherwise; every encodable value decodes back to itself |
| `config` | pass | the SNI of an IP host is a DNS name; for host names and IPv4, parsing `dsn_url()` gives back the config; `tls_ca_pem` never panics and reads back, as strict PEM, as exactly the pinned certificates |
| `config_tls_default` | violation | `TlsSecurity::Default` with a pinned CA verifies the host name, against the spec and the type's doc comment (finding) |
| `config_dsn_ipv6` | violation | `DsnRoundTripIpv6`: an IPv6 host is silently dropped from the DSN, so the DSN names localhost:5656 (finding) |
| `protocol` | pass | the connection implements ProtocolAbstract (`Refines`); every connect settles and every request completes or is cancelled, also after an ErrorResponse; a cancelled connection is never reused; every logged result is the one the server gave its request (`ResultsAsServerGave`); the server decodes every message with the layout it was encoded with, also after a downgrade |

Each property of a passing run has a mutant in `PROJECT.json`. The mutant is a plausible bug in the modelled code, and TLC finds it under the same configuration. The mutants are:

- a dropped `is_tcp` check;
- a future not stored back on Pending;
- an inverted `is_starttls` test;
- a swallowed handshake error;
- `check_scalar` without its protocol guard;
- `Range<T>` checked at its own position;
- an inclusive end of day for `LocalTime`;
- unchecked reserved Duration fields;
- a dropped `LB_INC` flag;
- a dropped `?` in `with_host`;
- the SNI without its "i" prefix;
- `to_pem`'s buffer sized without the `+ 4`;
- a Default DatabaseBranch written into the DSN path;
- `try_into` without the `tls_ca` check;
- a completion that keeps the old transaction state;
- no Sync after an ErrorResponse;
- an unanswered SASL challenge;
- Data rows read but not counted, so a one-row result is reported as NoDataError;
- requests encoded with the group of the requested version, not the negotiated one.

**Further disagreements, not run.** Some disagreements show directly at the source line, a run would add nothing, and each is listed as a hazard in `PROJECT.json` with its property:

- a vector of 65536 elements is encoded with length 0 (`RoundTrip` with `MCLongVectors`);
- `as_credentials` panics on port 0 (`AsCredentialsTotal`);
- `try_into` names `CredentialsFile` twice in its MultipleCompound error (`MultipleCompoundNamesBoth`).

The spec's scenario 6 expects the SNI `127-0-0-1.host-for-ip...`. Both the code and the spec's own TLS paragraph in 4.1 keep the dots of an IPv4 address and replace only ':' and '%'. `SniIsDnsName` follows 4.1.

## 5. Bounds, and why they suffice

- **Targets.** Two TLS parameter values. Ports `{0, 5656}`, where 0 is the boundary value `with_host` accepts and `as_credentials` refuses. All four endpoint kinds and all three modes.
- **Transport.** Two clients: two are needed for one connection to wait behind another. Optionally one raw peer.
  - Each client may pick any mode over an IP, host or Unix-path endpoint, with or without keepalive.
  - The server runs in any of the three acceptor modes, chosen in Init.
  - Each client sends at most one application message (`MaxData = 1`). One message is enough to tell plaintext from TLS data, and to put data where a handshake message is expected.
  - The liveness runs use IP endpoints only. The endpoint kind does not change what `poll_next` does; it only decides which `connect` failures are possible, and those are covered by the safety run.
- **Symmetry.** The safety run uses symmetry over the two clients. The liveness runs do not.
- **Descriptors.**
  - Blocks of up to `MaxDescs = 3` descriptors, with `MaxNest = 1` level of Range. Three positions are enough for a Scalar → Scalar → BaseScalar chain, and for a Range over a Scalar over a base.
  - Two type ids: the string id and one other.
- **Codec values.**
  - Integer fields range over `{-1, 0, 1}`.
  - `DayMicros` is scaled down to 86400. The LocalTime layouts still include both boundaries and one value on each side of them.
  - Vectors have 0–2 elements, and the vector length field is `% 2^16`.
  - Numeric buffers have up to two digits, with every sign and dscale case.
  - Every raw buffer is also tried one byte short and one byte long.
- **Config.**
  - One host of each kind: localhost, a domain, IPv4 `127.0.0.1`, IPv6 `::1`, a Unix path, and a host `from_str` rejects. `::1` is the case where the rewritten SNI starts with '-'.
  - Ports 5656 (the default) and 5000.
  - One name each for the database, user, password, secret key, server name, CA and cloud; the default user and a second user.
  - All four `tls_security` values.

  Every field a query branches on therefore takes its default and one other value. `DsnRoundTrip` covers host names and IPv4. IPv6 is `DsnRoundTripIpv6`, the subject of `config_dsn_ipv6`.
- **Pinned CAs.** Two lists: certificates of 1, 2 and 3 bytes (the three base64 tails, `n mod 3`), and of 48 and 49 bytes (a body of exactly one 64-digit line, and one that needs a second line). `BufLen`'s slack matters only for a padded last group, which the first list has in both forms.
- **Options.** Every subset of ten options, including the six that exclusivity and precedence read. The composition with TargetOps multiplies the state space (313,344 states), not the interleavings inside either value.
- **Protocol.**
  - The client asks for version 3. The server supports 3, or only 2, so both the direct accept and the one downgrade occur, and both Frontend groups are used.
  - Authentication is trust or SASL, and SASL may be rejected.
  - There are up to `MaxOps = 3` requests. They are drawn from query, start, rollback, dump and restore, with cardinality `One` (not optional) or `NoResult`.
  - A query returns 0 or 1 rows, and a dump 0 or 1 blocks.
  - Three requests are enough to go from no transaction, through an open and a failed transaction, back to no transaction. They also allow a pipelined request after a failed one.

## 6. Fairness

`FairSpec` assumes weak fairness of:

- `ServerPoll`: the executor polls the accept loop whenever it has work;
- each `ServerApp(p)`: the server task of an accepted stream runs;
- each client's step: a client task keeps running until it is done. This includes dropping the connection, which models its connect timeout.

In `Protocol`, `FairSpec` assumes weak fairness of the server's step and of the client's reading step. The server keeps reading its socket. The client reads while its caller awaits a connect or a request. The caller's own actions have no fairness: new requests, dump, restore, Terminate, cancel, and closing a cancelled connection. Neither does the server's spontaneous LogMessage. The run does not check deadlock, because a connection really stops: once it is closed, or once the caller stops issuing requests, nothing more happens. Both sides waiting on each other in the middle of a request or connect is caught by `RequestCompletes` and `ConnectSettles`.

Raw peers have no fairness: a stalled peer is allowed to stay silent forever, which is the point of `transport_hol_blocking`. The codec and configuration modules check safety only, so they assume no fairness.

## 7. Not modelled, and why

- **Name resolution, socket options and addresses.** Addresses are abstracted to their kind, so the ResolvedTarget comparison panic on unnamed Unix addresses is not reachable in the model yet (listed as a hazard).
- **Listener accept errors and `accept_one`.** An accept error is returned by `r?` as one `Err` item and consumes nothing the model tracks; `accept_one` is a single plain accept. Neither is modelled yet.
- **TLS shutdown and `close_notify`.** The shutdown path of `UpgradableStream` and both TLS drivers are outside this tree. On the server side the downgrade cannot be reached through this tree: `Acceptor` has no setter for `ignore_missing_tls_close_notify`, which all six constructors set to false (listed as a hazard).
- **TLS internals.** Certificates, ALPN and the wire form of SNI are not modelled. `to_tls` decides the SNI, and Config models it.
- **Date and time conversions.** `from_postgres_micros` and the model crate's types are outside this tree. `Datetime`, `LocalDate` and `LocalDatetime` decode as plain integers, and no property tells them apart.
- **Config parts without a property.**
  - `server_settings` keys are arbitrary text, and the spec does not say how they appear in a DSN (listed as a hazard).
  - `http_url` and `to_json` only format.
  - `UnixPath::path_with_port`, `TcpKeepalive::as_keepalive` and the `FromStr` parsers are not modelled.
  - The resolver that builds a Config from Params is outside this tree.
- **Byte-level framing.** Envelopes carry a tag, a sub-tag, a layout and one argument. `mlen`, payload bytes, MessageTooShort and MessageTooLarge are not modelled yet.
- **TLS error normalization (`SslError::common_error`).** The property it exists for is backend independence: the same certificate failure gives the same `CommonError` under rustls and openssl. Whether that holds depends on which raw error each library raises for a failure, and that is decided outside this tree. The table checked against itself would restate it. The rustls `ExpiredContext` variant and openssl's self-signed results map to `None`; this is listed as a hazard.
- **Protocol details.** The following are not modelled:
  - capabilities and compilation flags, which are passed verbatim;
  - out-of-band cancellation over a second connection, which spec 5 puts outside this core;
  - cancellation during connect;
  - a second ServerHandshake after a downgrade, which the modelled server never sends;
  - descriptors, which the codec modules cover.
- **Formatting.** Debug and Display implementations are left out: no property depends on them.
