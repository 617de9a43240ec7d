# A TLA+ verification of K-Filtra

K-Filtra is a proxy for Kafka. It listens in place of the brokers, rewrites the
broker addresses in their replies so that clients stay behind the proxy, passes
requests and replies through filter plugins, and authenticates on either side.
This directory holds TLA+ models of its core, the TLC runs that check them and
the TLAPS proofs about them. Source paths are relative to the repository.

## The system

| Component | State | Operations | Hard because |
|---|---|---|---|
| Connection processor (`proxy/processor*.go`, `copyThenClose` in `common.go`) | two sockets; channels `openRequests`, `nextRequestHandler`, `nextResponseHandler`, `firstErr` | two loops: read, check, queue, write | two goroutines agree through channels which reply belongs to which request; the one that ends first closes for both |
| Local SASL, gateway authentication (`sasl_local*.go`, `auth.go`) | `localSaslDone` | exchanges inside the requests loop | a second writer on the client's socket |
| Listeners (`proxy/proxy.go`, `proxy_config.go`) | map of broker address to listener, port counter, SNI map, `connSrc` | `GetNetAddressMapping`, `ListenDynamicInstance`, accept loops, SNI handling | called by all responses loops at once; read lock, then write lock; `uint16` ports |
| Client (`client.go`, `ConnSet` in `common.go`) | running connections, `stopRun` | `Run`, `Close`, `handleConn`, `DialAndAuth` | many error paths that own two sockets; shutdown races with dialling |
| Authentication at the broker (`sasl_by_proxy.go`, `sasl_scram.go`, `iam.go`, ...) | none that is shared | request/response exchanges | deadlines, early returns |
| Filter chain and encryption plugins (`filter_chain.go`, `plugin/*-encryption`) | plugin processes | `OnRequest` in order, `OnResponse` in reverse | bytes handed to the plugin against bytes it parses; partial batches |
| Protocol codec (`proxy/protocol`) | none | decode, modify, encode | schema per version, flexible headers |
| Token providers and verifiers (`pkg/libs/*`) | cached token, credentials, public keys | renewal loop, `GetToken`, file watcher | renewal against expiry, reload |
| Configuration (`config`, `cmd/kafka-proxy`) | none | parse, validate | mappings with several forms |

How they interact: an accept loop of *Listeners* puts a connection into `connSrc`;
*Client.Run* takes it and starts `handleConn`, which dials, authenticates, adds
it to the `ConnSet` and calls `copyThenClose`, the *processor*. Its responses
loop calls back into *Listeners* (`GetNetAddressMapping`) for each broker named in
a metadata or coordinator reply, which may start a listener. `Client.Close` stops
`Run`, which closes the client half of all connections in the `ConnSet`; each
processor notices and closes the broker half.

`PROJECT.json` lists all components, the hazards found at their lines, and which
property covers each.

## Modules

| Module | What it is |
|---|---|
| `Processor` | one connection: both loops, their channels, the sockets, a client and a broker |
| `ReplyQueue` | what a client may rely on: requests answered in order, at most once, until closed |
| `CopyThenClose` | what `handleConn` may rely on when it calls `copyThenClose`; `Processor` implements it, `Client` uses it |
| `ProcessorProofs`, `ProcessorQueueProofs` | theorems about `Processor`, the second about what its client sees and the refinement of `ReplyQueue` |
| `ListenersProofs`, `ClientProofs`, `TokensProofs`, `GatewayProofs`, `SaslProofs`, `DataPathProofs` | theorems about the modules of these names (`GatewayProofs`: about `GatewayAuth`) |
| `Listeners` | mapping, dynamic listeners, accept loops and SNI routing |
| `Client` | life cycle of connections, `ConnSet`, shutdown |
| `Tokens` | the token providers: cached token, renewal, credentials file and its watcher |
| `TokenInfo` | the token verifier: public keys, their renewal, `VerifyToken` |
| `GatewayAuth` | `Tokens` and `TokenInfo` on the two sides of the gateway exchange |
| `Sasl` | SASL exchanges of all mechanisms, by the proxy as client and as server |
| `Schema` | the codec: cells, decoding and encoding driven by a schema |
| `Responses` | schemas of the rewritten replies in every version, the modifier, response headers |
| `ProduceAcks` | the reader that finds the acks of a Produce request, byte by byte |
| `Records` | varints and the length of a record |
| `Encryption` | the two encryption filters: values, records, batches |
| `FilterChain` | the chain of filter plugins around `Encryption`, and a broker's log |
| `DataPath` | composes `FilterChain` with `ProduceAcks` and `Records`, and with any codec of replies |
| `RewrittenReplies` | `DataPath` with the codec of `Responses` |
| `MCListeners`, `MCClient`, `MCDataPath` | constants of the instances TLC checks |

Definitions introduced by `\* Fault.` are plausible mistakes: substituted for the
definition that follows them, they break a property of a run (`mutants` in
`PROJECT.json`), which shows that the property depends on that code.

### Processor

The sockets are FIFOs of frames with a capacity `SockCap`, so that a writer can
block. A frame's bytes are abstracted to a kind: what the code distinguishes
(Produce with and without acks=0, ApiVersions, SaslHandshake v0 and v1,
SaslAuthenticate, a bare SASL token, a frame the header checks refuse, any other
request). Each loop has a program counter; one action is what happens between
two points at which the other loop can interfere: taking a handler, reading a
frame, queueing the open request, writing, putting the next handler. A wait with a
timeout (`sendRequestKeyVersion`, `receiveRequestKeyVersion`,
`getNextResponseHandler`, `putNextHandlers`) has an action or branch for the
timeout; it is enabled when the wait cannot be satisfied at once. Filters,
decoding and address mapping may fail. A read or write fails on a closed socket,
a drained one whose peer has closed, or, where the code sets a deadline, at any
time it blocks.

The numbers `reply` and `slot` and the flag `token` of a frame are bookkeeping of
the model. They record to which reply and which entry of `openRequests` the frame
is entitled, so that a mismatch can be stated even when kinds agree.

`RequestsLoopReturns` and `RequestsLoopCloses` are separate steps because
`copyThenClose` fills `firstErr` first and closes the sockets afterwards. `Contract` maps
these steps to `CopyThenClose`: there the responses loop ends and closes in one step,
because its caller cannot go on in between.

Abstracted: sizes and contents; correlation ids (the proxy never looks at them);
`myCopyN`'s chunks; a token reply with a payload (`copySaslAuthResponse` relays four
bytes, which is all a broker sends for PLAIN); panics, except `copyError`'s on
a nil error. `LocalSasl` panics where a frame announces fewer than
four bytes (`sasl_local.go:153`) or an OAUTHBEARER message does not match its pattern
(`sasl_oauthbearer.go:65`). `withRecover` swallows the panic of a requests loop before
`firstErr` is filled, so that nobody closes the sockets until a peer does; in the models
these inputs are refused as an error.

### Listeners

A `*ListenerConfig` is a record: the port its listener was bound to, the broker id and
the advertised port, which differs from the first when the template of
`--dynamic-advertised-listener` names a port of its own (`TemplatePort`).
`listening` says which broker the accept loop of a port serves now. The two are
separate because an error of `Accept` closes the listener and ends its loop while the
entry stays in the map (`AcceptFails`, `proxy/proxy.go:399`); the history variable `lost`
holds the brokers this has happened to. Each caller (a responses loop) first looks the
address up under the read lock (`Lookup`) and then runs `ListenDynamicInstance`
under the write lock, one step: `DoubleCheck`, `NoPortForBroker`, `MoveListener`,
`Listen` or `ListenFails`. Other processes hold ports, and take and free them
(`ForeignMove`), as does a listener for another broker when an accept loop has ended.
The SNI listener gives each connection a goroutine (`AcceptSNI`, at most `MaxHandshakes`
at a time) that decides by server name or common name (`HandleSNIConnection`).
`Brokers` are the address and id pairs replies may name. `told` remembers every answer
given. The static mapping
(`getBrokerToListenerConfig`) is a constant with one listener per bootstrap server.
`ValidateAssumption` is what `Config.Validate` guarantees of the ports.

### Client

One program counter per connection follows `handleConn`. `copyThenClose` is reduced
to what its caller sees: the responses loop ends (and `handleConn` goes on), the
requests loop fills `firstErr` and closes the sockets later, perhaps after
`handleConn` has returned. That view is `CopyThenClose`, one instance per connection
(`Copier`), which starts when the connection comes to be served. `late` is a history variable: connections added to the set
after `conns.Close`. Killing the filter plugins, the second half of `Client.Close`,
only makes loops end early, which they may do anyway.

### Tokens, TokenInfo, GatewayAuth

Time passes in units. A token is its claims `iat` and `exp`, the version of the
credentials it was obtained with and the id of the key it is signed with. Up to three
kinds of process ask the server for tokens at the same time: callers of `GetToken`
(`GetTokenAsks`, `GetTokenReceives`, `GetTokenFails`), `initToken` at the start, and
the refresher (`RefreshTick`, `RefreshFails`, `RefreshRetries`, `RefreshReceives`). A
request and its answer are separate steps, so a slow answer may be stored after a
newer one. The server is up or down for whole units; a request ends within `Timeout`
(the HTTP client's), which is why `Tick` waits for it.

The credentials file has a version number for its contents, is absent, or does not
parse. An editor truncates, writes, replaces, removes and creates it. The watcher
follows `util/watcher.go`: events queue up, a removal takes the watch off,
`WaitForReplacement` puts it on again. With a link the directory is watched.
`Action` is where the two providers differ: googleid replaces the credentials inside
its source (`ReloadInPlace`), oidc assigns a local variable (`AssignVariable`).

`TokenInfo` holds the public keys, refreshes them and replaces them all.
`VerifyToken` is the list of checks in the order of the code. The keys of the issuer
are external: it signs with key `gen` and publishes the neighbours as well.
`GatewayAuth` lets a caller send the token it was given; the other side verifies it
with its own clock and keys, and answers or closes.

### Sasl

A connection has a client and a server. The client is the proxy (`SASLAuthByProxy`) with
one of five mechanisms, or a Kafka client; the server is a broker (external) or the
proxy's `LocalSasl`. What the client sends is the sequence `Exchange`; each step is
`Send`, for SCRAM `Count` (the increment of the shared correlation id, a step of its
own, as nothing locks it), and `Receive` with the checks of the mechanism. A connection can
drop, or its peer fall silent; reads end then only where a deadline is set
(`SetsReadDeadline`). After authentication one more request is sent and its answer
read: if the exchange has left bytes in the stream, the client is `misled`. Of
credentials the model keeps whether they are good, wrong, or good but `torn`: with a
NUL in a PLAIN password, or a bearer token with characters outside the server's pattern.

### FilterChain, DataPath and what they compose

One request at a time is followed through the proxy. `Produce` and `Fetch` carry
batches of records through the chain, filter by filter, forward for requests and in
reverse for replies. Plugins die or do not start (a plugin that does not start is left
out of the chain), key services come and go, and the proxy restarts with any selection
of its plugins. A value is what the producer wrote and the layers of encryption
around it. `job.why` says why a request ended early. This is `FilterChain`;
`DataPath` adds the steps before any record is sent that exercise
the codec, the acks and the records' lengths (`Bootstrap`, `JudgeAcks`, `UpdateBatch`).
What `handleResponse` makes of a reply is the constant `Rewrite`, for which the runs put
`RewriteReply`, the codec: it is recursive, and the rest can be proved about without it.

`bare` distinguishes two ways to call the filters: with the body alone, which is what
their tests do and what they parse, and with the header in front, which is what the
proxy does. Parsing header and body as a body yields whatever the bytes happen to
mean (`MisparsedAs`, a choice): an error, or a request without records, which is
passed on without its header. The properties hold both ways, as far as they can
with headers: what is not refused is right. That it is not encrypted at all is
`encryption_through_proxy`.

`Schema` and `Responses` keep bytes as cells (a width and a value); a value decodes only from cells
of the layout its schema states, so that a wrong type, order or version shows. The
reference is `KafkaReply`, what a broker sends in each version by Kafka's protocol.
Three limits of the codec are scaled down so that replies reach them: `MaxInt16` = 2 stands
for the 32767 above which strings and compact arrays are not encoded
(`prep_encoder.go`), `MaxArrayLength` = 3 for the 2*65535 above which an array is not
decoded (`real_decoder.go:88`), and `MaxRequestSize` = 642 for the 100 MiB above which a
message is not encoded (`schema.go:666`). With 642 some replies fit whose
rewritten form, with the longer host name of the proxy, does not. `ReplyIsFaithful`
says that these limits and the checks of the modifier are the only reasons to refuse a
reply. Of the table of header versions the model keeps the two rewritten replies.
`ProduceAcks` works on real bytes, because its question is about bytes: the
reader was written for versions before 9 and is used for all. It takes the byte of the
tagged fields and the compact length of the transactional id for a 16 bit length. For
a producer without transactional id the two bytes are 0 and 0, so that the acks are
next; with a long one, the bytes it lands on are not zero, and
transactional producers wait for all replicas. `AcksJudgedRight` states the result: TLC checks
it at the lengths at which the varint grows, the proof covers all. `Records` compares the table
of varint lengths with the encoding. Its numbers have zigzag codes below 2^31 (`MaxVarint`), since TLC
computes with 32 bits. That is ample for lengths: a record of a gigabyte is far above what
Kafka accepts. It does cut timestamp deltas, which the code encodes as 64 bit
varlongs: deltas above 2^30 ms (12 days within one batch), and with them the
table's entries for more than 31 bits, are unchecked. A varint whose fifth
byte exceeds 32 bits, which the code truncates, is not modelled either: no encoder writes one.

## Runs

| Run | Shows | Bounds |
|---|---|---|
| `processor_pipelined` | `ReplyReadAsItsRequest`, `OpenRequestPresent`, `HandlerIsOnItsWay`, `RequestHandlerPresent`, and that the connection implements `ReplyQueue` | 4 frames of 6 kinds from a client that never waits; 2 open requests; 2 frames per socket buffer |
| `processor_local_sasl` | `RepliesInOrder`, `BrokerSeesOnlyAdmitted` with gateway and local SASL | 5 frames: ApiVersions, handshake, token, Produce and one more; queues of 1 |
| `processor_liveness` | `Teardown`, `EveryRequestAnswered`, `ResponseHandlerFits` | 3 frames, queues of 1, which makes every queue full |
| `listeners_sequential` | `OneListenerPerBroker`, `PortsInInterval`, `AnswersStayValid`, `EventuallyMapped` | two callers, two brokers to map and a bootstrap server, four ports of which others hold up to two |
| `listeners_deterministic` | `MapsToItsListener`, `RoutedAsAdvertised` | two callers, four addresses: a bootstrap server, one behind SNI, and two between which broker 0 moves while another id falls on the same port; ids without a port; a template with a port; accept errors, after which the port is bound again; one SNI handshake at a time |
| `listeners_port_claim` | violation, see findings | one caller, two addresses, two ids |
| `gateway_tokens` | `AnswersAreValid`, `OutageIsBridged`, `SourceStaysUsable`, `TokensAreAccepted`, `ReloadIsUsed` | both providers, file and link; a connection, 8 units, tokens that live 6, three changes of the file in the first unit, a change of the key, one failed refresh of the keys, clocks one unit apart |
| `tokens_oidc_reload` | violation, see findings | one connection, two changes of the file |
| `sasl` | `SuccessIsMutual`, `StreamIsClean`, `FailureHasAReason`, `ExchangeEnds` | two connections that share an authenticator, five mechanisms, `SaslAuthenticate` v0 to v3 |
| `data_path` | `StoredAsEncrypted`, `RestoredOrRefused`, `RecordLengthsAgree`, `ReplyIsFaithful`, `AcksJudgedRight` | both filters, two batches in the log, a restart, Produce and Fetch v9 and v13; Metadata v0 to v14 and FindCoordinator v0 to v7 with one or two brokers and more than the codec's limits allow; acks in old and flexible layouts; lengths around every size of a varint up to 3 bytes |
| `encryption_through_proxy` | violation, see findings | one batch |
| `client` | `ConnSetIsServed`, `NothingLeaks`, `HangUpEndsConnection`, `CloseEndsConnections` | three connections, two of them to one broker; `connSrc` of 1 as in the code |

Why these bounds are enough to be interesting: the processor's queues differ by one
from each other, so depth 2 with 4 frames fills and drains each of them, with an
acks=0 request or a SASL exchange at any position. A mapping race needs two
callers, a wrong removal from the `ConnSet` two connections of one broker. In eight
units a token is issued, half used up, renewed and expires, with an outage at any
point, and the next key comes into use. Two records and two batches are enough for a failure between
the first and the second; two filters for a wrong order. `EditHorizon` keeps edits of
the file to the first unit, because its contents play no part in renewal.
The proofs remove the bounds for what matters most. `processor_*`, `client`, `sasl` and
`gateway_tokens` do not check for deadlock, because connections end and the clock
stops at its bound; `listeners_*` and `data_path` do.

Fairness. `Processor!Fairness`: both goroutines run, and timers and deadlines fire;
nothing is assumed of the peers. `LiveSpec` adds that the peers keep reading, which
`EveryRequestAnswered` needs; `Teardown` holds without it. `Listeners!FairSpec`: calls
run to their end, as none of their steps waits for a peer. `Client!Fairness`: `Run`
notices `stopRun` (Go's `select` chooses at random among ready cases), goroutines
run, and a loop ends once a peer has hung up or its socket is closed, which is
`Teardown` of `Processor`. Dialling and authenticating are not assumed to end:
`sendAndReceiveGatewayAuth` asks for a token without a timeout. `GatewayFairSpec` and
`Tokens!FairSpec`: the watcher's goroutine and `NewTokenProvider` run; nothing is assumed of the
editor or of the server. `Sasl!Fairness`: the client's goroutine runs, and read deadlines
expire where they are set, for `LocalSasl` too; nothing is assumed of brokers.

### Findings

* `listeners_port_claim`: "listener port = min port + broker id" (README, `--help`) does
  not hold for an address that was mapped for another broker id before: it
  keeps its listener (`proxy/proxy.go:222` and `:277`).
* `tokens_oidc_reload`: the oidc provider never uses credentials it has reloaded. The
  watcher assigns a variable (`pkg/libs/oidc-provider/plugin.go:68`) from which the
  provider has copied its source; `--credentials-watch` says "Watch credential for reload"
  (`factory.go:38`). `ReloadIsUsed` shows that googleid does reload.
* `encryption_through_proxy`: the proxy hands header and body to the filters
  (`proxy/processor_default.go:105`), which parse a body. "It automatically encrypts
  messages on `Produce`" (README, line 58) holds only for a filter called as in its tests:
  "Build the body bytes the filter will see" (`plugin/vault-encryption/integration_test.go:118`).

Limits, found while modelling, that no property contradicts. After an error of `Accept`
the listener is closed for good: `GetNetAddressMapping` goes on advertising its entry, no
listener is started for that broker again, and in the sequential and deterministic modes the port may
be bound again for another broker, which clients of the first then reach
(`MapsToItsListener` and `AnswersStayValid` make this the only exception). `copyThenClose` may return
while both sockets are still open (`firstErr` is filled first); they are closed soon after
(`Teardown`, `NothingLeaks`). SCRAM reads without a deadline (`sasl_scram.go:142`), so
`ExchangeEnds` excludes it. `LocalSasl` refuses PLAIN passwords with a NUL and
bearer tokens with characters outside its pattern. In a mounted Kubernetes secret the link `..data` changes, not
the watched path, and such a change is not noticed (`util/watcher.go:140`). A change of
the credentials between their reading and the start of the watcher is missed
(`missed`). A filter plugin that does not start is skipped with a log message
(`filter_chain.go:53`), and requests pass without it. From version 13 on, Produce and
Fetch give topic ids, so all topics share the key `KEK-`, and a fetch by id cannot
decrypt what was produced by name. An empty value comes back as nil. Compressed, control and cut batches are
refused, and a gzip batch ends the plugin by a panic. A client that
pipelines its SASL handshake behind an ApiVersions request may get the proxy's
reply before the broker's, so `RepliesInOrder` is checked for clients that
authenticate step by step, as Kafka's do. When the minimum and the
number of sequential ports exceed 65536 together, allocation stops at the overflow:
`nextDynamicPort` fails and the counter stays (`proxy/proxy.go:308`).

## Proofs

`ProcessorProofs` proves, for all values of the constants that satisfy
`ConstAssumption` and `Acks0Assumption` (any queue sizes, any number of frames, any
mix of kinds and settings, pipelining or not):

* `TypeCorrect`: `Spec => []TypeOK`, which includes the channel capacities;
* `RepliesReadAsTheirRequests`: `Spec => []ReplyReadAsItsRequest`;
* `OpenRequestsPresent`: `Spec => []OpenRequestPresent`;
* `RequestHandlersPresent`: `Spec => []RequestHandlerPresent`;
* `HandlersOnTheirWay`: `Spec => []HandlerIsOnItsWay`;
* `LoopsKeepContract`: `Spec => KeepsContract`, the refinement of `CopyThenClose`.

None of these is inductive alone. The argument follows one pipeline: the frame in the
requests loop's hand, `toBroker`, `fromBroker`, the reply in the responses loop's
hand. Along it the frames carry consecutive reply numbers, except that an
acks=0 Produce carries the number of its predecessor and has no reply, and
consecutive slots, where a token keeps the slot of its predecessor; and the frame
after a v0 handshake, and only that one, is a token (`PipeInv`). The inductive
invariant `IInv` adds:

* `OpenInv`, `OpenKindInv`: `openRequests` holds exactly the slots between the last reply
  taken and the last request queued, each with the kind of its frame;
* `HandlerInv`, `JobInv`: `nextRsp` holds exactly the handlers for the replies still to
  come plus one, each of the format that the frame before it announced;
* `ReqInv`, `RspInv`: what the program counters say of the frames in hand;
* `Acks0Inv`: with acks=0 disabled no such frame is under way.

One lemma per action shows that it preserves `IInv`; lemmas about chains
(`FrameChainAppend`, `FrameChainTail`, `ReplyChainAppend`, `ReplyChainTail`) carry the
numbering through writes and reads. The theorems follow from `IInv` state by state:
a reply taken from the head of the pipeline has the number of the head of
`nextRsp` and the slot of the head of `openRequests`. The refinement adds `StopInv`: a loop closes
only after `firstErr` is filled, at most one loop is closing, and when none is any more both
sockets are closed. It needs `RequestHandlerPresent`: a requests loop that panicked in
`copyError` would have filled `firstErr` and closed nothing.

`ProcessorQueueProofs` proves what the two ends of a connection see, on top of `IInv`:

* `OnlyAdmittedReachesBroker`: `Spec => []BrokerSeesOnlyAdmitted`, for every setting;
* `RepliesStayInOrder`: `Spec => []RepliesInOrder`, and `ConnectionIsReplyQueue`:
  `Spec => ImplementsReplyQueue`, the refinement, both under
  `LocalSaslEnabled => ~Pipelining`;
* `ResponseHandlersFit`: `Spec => []ResponseHandlerFits` under `~Pipelining`.

The hypotheses are needed (see *Limits*): a client that pipelines its SASL frames may
get the proxy's own answer before older answers of the broker, and may fill the
handler channel. For the order of replies `IInv` is extended by `QueueInv`: the ids of the
client's requests increase along everything in flight, each frame with a reply is at the place of
`await` that its reply number gives (`InPlace`), and the SASL frame of a client that
waits is the newest (`StepwiseInv`, `TokenInv`). Under the refinement mapping a
step of the loops is a reply, a close or a stutter. `BrokerSeesOnlyAdmitted` needs only
`AdmitInv`, what is known of the frame in hand after the checks. `ResponseHandlerFits`
needs `FitInv`: the difference between handlers and open requests outstanding (`Lag`) never
exceeds zero, unless a token is the last frame.

`ListenersProofs` proves, for every set of brokers and callers, every port space and
interval and every setting that satisfies `ConstAssumption` and `ValidateAssumption`:

* `ListenersTypeCorrect`: `Spec => []TypeOK`;
* `MappedToItsListener`: `Spec => []MapsToItsListener`: an entry's port is bound and leads
  to its broker, until and unless its accept loop has ended with an error;
* `OneListenerEach`: `Spec => []OneListenerPerBroker`;
* `DynamicPortsInInterval`: `Spec => []PortsInInterval`;
* `AnswersKeepValid`: `Spec => []AnswersStayValid`;
* `ConnectionsRoutedAsAdvertised`: `Spec => []RoutedAsAdvertised` under `~TemplateFails`.

Every listener has its entry in the map, and every entry that is not `lost` its listener,
which is inductive only as a pair: `Listen` and `MoveListener` change both
(`WhatListens` and `WhatMoves` say how). `AcceptFails` takes a listener away and
makes its entry lost; a lost entry stays so, since a port bound again is
bound for an address that had no entry, and its move to another address takes `lost` along. With a
broken template no entry is ever added (`TemplateInv`), so that the listeners it leaves behind have
none to lose. Ports need two more additions to the invariant: `DynamicInv`, that only a lookup that
may listen gets that far, and `IntervalInv`, that an entry with a broker id, which
`MoveListener` may give to another address, has a port in the interval. The lemma
`PortInInterval` carries the arithmetic: a sum that wraps around is smaller than the
minimum, which is how `nextDynamicPort` notices it. The last two rest on what any step
does to entries, listeners and answers (`Grows`): an answer fits an entry when it is given
(`NewAnswersFit`), an entry stays as it is, for the same broker in the sequential mode
(`EntriesStay`), and a listener is bound or moved only by a call that is told of it
(`NewListenersTold`). That listeners stay is not claimed; `MapsToItsListener` supplies that one is
missing only where its accept loop has ended. `SniInv` and `RouteInv` follow a connection from `Accept` to `connSrc`. A template
that does not execute leaves a listener nobody was told about, hence the hypothesis,
which the property states too.

`ClientProofs` proves, for every number of connections and brokers, every
capacity of `connSrc` and every setting (`ConstAssumption`):

* `ClientTypeCorrect`: `Spec => []TypeOK`;
* `ConnSetHoldsTheServed`: `Spec => []ConnSetIsServed`;
* `NoSocketLeaks`: `Spec => []NothingLeaks`;
* `ServedByContract`: `Spec => ServesByContract`: for each connection, `Client` implements
  `CopyThenClose`.

`ConnSetIsServed` is inductive with the types, by two lemmas on what `Append` and `Remove`
do to a sequence without repetitions. `NothingLeaks` needs `SocketInv`: no broker
socket before dialling, none left open by a failed dial or authentication,
`firstErr` filled when the responses loop has ended and untouched before
`copyThenClose`. For the refinement `Ready` adds that both sockets are open when a connection comes to be
served. A step that serves one connection is a step of that connection's
contract and a stutter of all others (`OthersStay`); `ConnSet.Close` is `ShutDown` for each
connection in the set. Together with `LoopsKeepContract` this justifies reducing `copyThenClose` in
`Client`: each connection takes only steps of a contract that the loops keep.

`TokensProofs` proves, for every set of callers, every lifetime, timeout, skew and number of
retries and edits with `Timeout + Skew < Life` (`ConstAssumption`):

* `TokensTypeCorrect`: `Spec => []TypeOK`;
* `HandedOutTokensAreValid`: `Spec => []AnswersAreValid`;
* `WorkingCredentialsStay`: `Spec => []SourceStaysUsable`;
* `RenewalBridgesOutages`: `Spec => []OutageIsBridged` under `Margins`.

`AnswersAreValid` needs `CallInv`: a request is no older than `Timeout`, and a token
on its way was issued after it was asked for. Then a token is received with at least
`Life - Timeout` left, and one from the cache has passed `renewLatest`.
`SourceStaysUsable` needs `StartInv`: `initToken` is reached only with a source that
is not nil.

`OutageIsBridged` needs `BridgeInv`, which relates the age of the cached token to what
the refresher is doing and how long the server has been gone: the token is older than
the early limit by no more than the outage and a unit, or the request that renews it was sent
in the unit before. `Margins` says
what the theorem needs of the constants: a request ends within a unit, skew and half of the
lifetime fit into the lifetime, and the outage with two units added into half of the lifetime, which
is the margin of `renewEarliest`. The run's constants are at this limit. With a unit of a
minute the code's are far from it: a timeout of 10 seconds, a skew of a minute, and half
an hour of margin for Google's tokens, which live an hour.

`GatewayProofs` proves about the composition `GatewaySpec`, for any number of connections,
lifetimes, drifts and key changes (`GatewayAssumption`):

* `GatewayTakesTokens`: `[]TokensAreAccepted` under `AuthTimeout <= Skew`;
* `ProvidersInGateway`: the invariants of `Tokens` hold in the composition as well.

The hypothesis is needed, because a token is handed out with the skew left and may be under
way for `AuthTimeout`; by default these are a minute and ten seconds. `KeyInv` says how old the
verifier's keys can be, `SignatureInv` with which keys tokens can be signed that
are still around, and `ExchangeInv` that a token was valid when the exchange began.
Together: the key of a token under way is among those loaded.

`SaslProofs` proves for every set of connections and of enabled mechanisms:

* `SaslTypeCorrect`: `Spec => []TypeOK`, `SuccessOnBothSides`: `Spec => []SuccessIsMutual`,
  `StreamStaysClean`: `Spec => []StreamIsClean`, `FailuresHaveReasons`:
  `Spec => []FailureHasAReason`.

The invariant is one per connection, since connections share only the configuration and
SCRAM's counter, whose value decides nothing. `TurnInv` says whose turn it is: the
frame due is on the wire, or its answer, granted or refused, or nothing; `ServerInv` what the
server must have checked to be where it is; `ReasonInv` why a client has given up.

`DataPathProofs` proves about `DataPath`, for all chains of the two filters, all batches, versions,
lengths of the log and numbers of restarts (`ChainAssumption`), every codec of replies
(`Rewrite`), all Produce requests of `AcksAssumption` and all records of `RecordAssumption`:

* `ChainTypeCorrect`: `Spec => []TypeOK`;
* `StoredEncrypted`: `Spec => []StoredAsEncrypted`;
* `ConsumersGetWhatWasWritten`: `Spec => []RestoredOrRefused`;
* `RepliesPassUnchanged`: `Spec => []ReplyPassesUnchanged`;
* `AnswersAreAwaited`: `Spec => []AcksJudgedRight`;
* `RecordLengthsAreRight`: `Spec => []RecordLengthsAgree`.

The invariant `DataInv` follows the layers of a value. On its way to the broker it is `Sealed` by
the filters before `job.at`, in their order and with the key's name of the request's
version. On its way back it is what is stored, `Peeled` down to layer `job.at`, if this chain has
stored it (`JobInv`). The lemmas go from one value (`EncryptedValue`, `DecryptedValue`) over a batch
to a message; that a loop ends with the first failure is `FirstFailure`. A batch that fails is then one
that `RestoredOrRefused` names: of another chain, under another key's name, or not data. A job of
another kind (`OtherJob`) leaves log and plugins alone; a reply with addresses is left as it is by each
filter, since none of them looks at its api key.

`AcksJudgedRight` is a walk through the bytes: behind the correlation id the reader skips the client
id, whatever its length, because writer and reader agree about it. Up to version 8 they agree
about the transactional id too. From version 9 on the reader takes the empty tags and the first byte of
the compact length for a length. Without an id it is 0, and the acks are next. With an id of up to
126 bytes it is one too many: the reader lands on the second byte of the acks, which with the zero
behind it, the first byte of the request's timeout (30 seconds in `AcksBytes`), is 0 exactly for acks=0.
Up to 254 bytes it is right by accident, since a byte of the compact length is left. From 255 on
the reader lands among the letters of the id, and waits for an answer. `AcksAssumption` states what
is used of producers: ids of at most 32767 bytes, and that one with an id of 255 bytes or more
asks for acks, which Kafka's transactional producers must.

`RecordLengthsAgree` rests on two facts about a number below 2^31: the table entry for
its number of bits is its number of groups of seven bits, and decoding what was encoded
returns the number. The encoding is written with tables of powers instead of a recursion,
which is what brings it into the prover's reach.

Writing the proofs changed the models in several places. Where the code tests conditions
one after the other, arms of `CASE` overlapped (`Sasl`, `Encryption`, `ProduceAcks`, `Responses`,
`Schema`): TLC takes the first, the language any, so they are disjoint now. The order of
a chain is stated by its elements' places (`NewFilterChain`) instead of with a recursive
selection. The codec is a parameter of `DataPath` (`Rewrite`), and varints are no longer recursive.
`GatewayAssumption` says that key 2, which
the issuer publishes from the start, is a key.

Only model-checked:

* liveness (`Teardown`, `EveryRequestAnswered`, `EventuallyMapped`, `HangUpEndsConnection`,
  `CloseEndsConnections`, `ReloadIsUsed`, `ExchangeEnds`), which is out of the prover's reach;
* `ReplyIsFaithful`: the codec follows schemas recursively, and what a recursion computes for
  every input is out of the prover's reach. That the reply then passes the filters is proved.

## Not modelled, and what could follow

1. The parser of mappings in the configuration and the parser and matcher of
   certificate subjects, as algorithms against a reference. Both are pure, run once
   per start or connection, and are well covered by the repository's tests.

Not modelled: TLS, cryptography and Kerberos libraries, the contents of IAM signatures, the
LDAP and user-file plugins (one call without state), HTTP endpoints, metrics,
logging, generated RPC code and everything under `vendor/`, except how `kmsg` and `kbin`
write a record, which is the reference `Records` compares with. A batch with a negative number of
records, which the Vault filter would empty (`plugin/vault-encryption/main.go:336`), is not
modelled, as no producer or broker sends one; nor is a value that was never encrypted and begins
with the byte 1, which the filter takes for an encrypted one, with a key of up to 65535 bytes
(`main.go:267`): what it does then is up to Vault's check of these bytes. Configuration is a set
of constants with the assumptions that `Config.Validate` guarantees.
