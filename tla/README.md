# Verification of credential-gateway

credential-gateway runs on a developer's machine or a trusted host, listens on
local ports without credentials, and forwards each connection to the real
service with the credential of its configuration. This directory holds TLA+
models of it, the TLC configurations that check them on small instances, and
machine-checked proofs, for instances of any size, of nearly every safety
property that the configurations check.

## The system

| Component | Code | State it keeps | Operations | Modelled in |
|---|---|---|---|---|
| process lifecycle | `main.go`, `gateway.go` | the list of listeners, the quit channel, Stop's context | load, validate, `Start`, signal, `Stop`, exit | `Startup` up to the open ports, `Gateway` from there on |
| accept loops, `safeHandle`, connection log | `*.accept`, `safehandle.go`, `pipe.go` | listening socket, process-wide `connSeq`, one `connLog` per connection | accept, spawn, recover, accept and close lines | `Gateway` |
| relay | `pipe.go` | two copy goroutines, `sync.Once`, `WaitGroup`, two counts | copy, close both, wait, return | `Pipe`, `Relay` |
| PostgreSQL proxy | `postgres.go` | position in the startup and authentication exchange | SSL refusal, startup, trust / MD5 / SCRAM, forward startup, relay | `PostgresProxy` |
| MySQL proxy | `mysql.go` | position in the handshake, the client's packet number and capabilities | handshake without TLS, response replaced, auth switch refused, relay | `MySQLProxy` |
| Oracle proxy | `oracle.go` | position in CONNECT loop and login | resend, refuse, accept, native services, two logins, relay | `OracleProxy` |
| Redis proxy | `redis.go` | `bufio.Reader` in front of the client | AUTH to the upstream, interception of the client's AUTH, relay with buffered head | `RedisProxy` (and `Pipe` for the head) |
| HTTP proxy | `http.go` | an `http.Server`, a `ReverseProxy` | Serve, header rewriting, Bad Gateway, Shutdown | `HTTPProxy`, `Gateway` for Serve and Shutdown |
| one connection of any service | `*.handle` | its two sockets | | `Connection`, `Sessions`, `CredentialSession` |
| configuration | `internal/config` | none (the file) | search path, permission and ACL check, decode, validate | `Startup`; in `ConfigEdit` as a predicate |
| admin UI | `internal/admin`, `cmd/credential-gateway-admin` | the file, through one descriptor per request | save: validate, truncate, write, fsync; shutdown | `ConfigEdit` |
| systemd units | `deploy/*.service` | service state | ExecStartPre, ExecStart, restart, stop | `ConfigEdit` (states of the gateway and admin service) |
| install, deploy, release scripts | `scripts/`, `lib/release.sh`, workflows | files on the host, git | install, ACL, restart; tag and publish | not modelled |
| flags, log level, formatting | `main.go` | none after start | | not modelled |

How they interact. `main` loads the configuration, which `config.Parse`
validates, builds one listener per entry, starts them in order, and waits for a
signal. A listener's goroutine hands each connection to a handler of its own
under `safeHandle`; a handler dials its upstream, injects the credential, and
calls `pipe`, the code all TCP proxies share. `Stop` runs the listeners' stops
in parallel under one context of ten seconds. The admin UI is another process:
it shares with the gateway nothing but `config.yaml`, which it rewrites in place
and which the gateway reads at every start.

What is hard here: two copies that end in any order around one `sync.Once`;
peers that half-close, reset, stall and send early; handlers without deadlines
that must hold up neither the others nor a stop; `Serve` starting after
`Shutdown`, or failing long before it; HTTP connections that an upgrade takes out
of the server's hands; authentication exchanges of several messages whose traces must not
reach the client; two logins that interleave message by message; packet numbers
taken from three places; headers set in front of a step that removes headers;
bytes that were read too far; a file rewritten by system calls that another
process may read, or a kill interrupt, between any two of them; permissions
checked by several system calls on a path.
`PROJECT.json` lists each such hazard at its line with the properties aimed at it.

## The modules

### `Relay` and `Pipe`

`Relay` says what a relay promises: bytes forwarded and delivered in order while
it is open or ending, possibly a lost suffix, and an end once it begins to end.
`Pipe` is `pipe()`. Each direction `d` has a goroutine whose program counter is
`pc[d]`: `io.Copy` reading (`ReadHead`, `ReadConn`, `ReadEnd`) or writing
(`WriteByte`, `WriteFails`), then the deferred `closeAll` (`CloseFirst` and
`CloseSecond` are the two closes inside `once.Do`, `CloseAgain` the later
caller, which waits for them), then done; `Return` is `wg.Wait` and the return.
`head` is what the redis proxy's `MultiReader` yields first. A byte is its
direction and its number. `inq`, `buf` and `outq` are the socket's receive
queue, the chunk in `io.Copy` and the path to the peer; a full path blocks the
writer. `PeerSend`, `PeerFin`, `PeerReset`, `PeerReceive` and `LoseTail` are the
peers and the kernel, at liberty to do anything TCP allows. `splice(2)`, which
Go uses between two sockets, moves bytes in chunks just as `buf` does.

`got`, `sent` and `err` are history: what the peers saw and the error that
`io.Copy` returned and the code drops.

### `Gateway`

One variable per piece of process state. `StartListener`, `StartFails`,
`StartDone` are `Gateway.Start` as called by `main` (sequential, whatever
`README.md:205` says); `Signal` is either the default effect or the channel;
`BeginStop`, `TcpStop`, `Shutdown*`, `StopReturns` are `Gateway.Stop` and what
`net/http` does in `Shutdown`, as far as the code relies on it: closing the
listeners Serve has registered, waiting for Serve, closing idle connections,
polling, giving up at the deadline. `Accept`, `Spawn`, `AcceptEnds`, `AcceptFails`
are the accept loops. A TCP loop that fails leaves its socket listening; `Serve`
fails on an error that lasts, which closes the socket ("http proxy exited",
http.go:53-57) while the process goes on. An HTTP connection is new, active, idle
or, by `Upgrade`, hijacked by the `ReverseProxy`: then `http.Server` forgets it,
and `Shutdown` neither waits for it nor closes it (`Tracked`); `HttpPeerLeaves`
ends it, as it may end any HTTP connection. `LogAccept` to `Recover` are a TCP handler under
`safeHandle`, its deferred closes included; what it says to its peers is left to
the proxies' modules: between accept and relay it may fail or panic at any
moment. `Exit` records in `cut` the connections the process ends under.

### `CredentialSession`, `Connection` and `Sessions`

`CredentialSession` is the abstract session: the upstream answers the configured
credential (or none is configured) before the client is let in, the client's
own messages pass only in the relay, closed is final. Its verdict is what the
upstream says, not what the handler takes it for: pending, accepted, refused or
other. PostgreSQL, Oracle and Redis let a client in only when the verdict is
accepted. MySQL's handler lets one in on every packet that is neither an error
nor a request for another plugin (mysql.go:133-147): on an OK, but also on
AuthMoreData or an empty packet, which is "other". Never on a refusal.

`Connection` is what the handlers have in common. It keeps the four streams of a
connection whole, with the number of messages each reader has taken, so that
properties can relate what one side saw to what the other sent. The client sends
its script without waiting; the upstream follows the mode of an honest server
(`Answer`, `Speaks`) or, in mode `free`, sends anything at any time. Either may
close at any moment; `ClientGone` and `UpstreamGone` are the reads that find it
out and the writes that fail.

`Sessions` puts the five handlers side by side, each as an instance with scripts,
modes and configurations of its own, and states once what all of them promise.
`Init` picks the service as `gateway.New` does for an entry. Each property is
the conjunction of what it means for the services, defined in their modules. An
HTTP connection opens no session, for every request carries the credential.

### `PostgresProxy`

`ReadStartup` is the SSL refusal and the startup, `AuthLoop` one turn of the loop
in `handle`, `ScramFirst` and `ScramFinal` are `doSCRAM`, `ForwardStartup` is one
turn of `forwardStartup`. The honest modes are trust, MD5 and SCRAM, with the
right or a wrong password, an impostor without the password, and one that only
offers other methods. Nonce, salt, iteration count and signature are abstracted
to good and bad messages, which is all that the code branches on.

### `MySQLProxy`

A packet is its type, its number and what the code reads of it. `ReadHandshake`
passes the handshake on without the offer of TLS, `ReadResponse` replaces the
client's response (`Requested` is `mysqlParseDatabase`, with its assumption about
the length of the authentication data), `ReadResult` is the switch, the error or
the way into the relay, which everything else falls through to (`LetsIn`).
`Verdict` is kept apart from it: it reads the upstream's packet. Numbers are
bytes.

### `OracleProxy`

`ReadAccept` is one turn of the CONNECT loop, `NSFromUpstream` and
`NSFromClient` are the round of native services, `ReadO3Log` to `ReadVerdict` the
two logins of `doAuth`. A challenge is its salt; a proof is the salt it was made
for.

### `HTTPProxy`

`Serve` is the Director and what `ReverseProxy` does behind it: `Injected` sets
the configured headers in any order of the map, `Stripped` removes what is
hop-by-hop or nominated. `ForwardAnswer`, `ExchangeFails` (the `ErrorHandler`) and
`AnswerBreaksOff` are the ends of an exchange. `net/http` is modelled as far as the
code relies on it. A name is in its canonical form, so that two spellings are
one name with two values. The Director also sets `req.Host` to the upstream's
(http.go:36), whatever the request says; no property depends on it and it is left
out. So is the stream of an upgraded connection, which `Gateway` has as a state.

### `RedisProxy`

Commands are cut into three pieces, at the places where `discardClientAuth` can
have seen too little to decide. `Fill` is the `bufio.Reader` taking whatever has
arrived; `Wants` is what `Peek` or the reader of an AUTH still needs; `ConsumeAuth`
takes one command out of the buffer and answers it. `AuthReply` is the single
`Read` of the upstream's answer, judged by its first three bytes (redis.go:64-74).
The answer may come in two segments. In mode `split` the cut is inside "+OK": read
alone, the first segment is taken for a refusal. In mode `splitEnd` it is behind
"+OK" or its CR: read alone, the first segment is accepted, and the rest of the
line stays in the socket, where the relay finds it and passes it to the client.
`RepliesMatch` says how much that can be: the end of this one line, in front of
every reply.

### `Startup`

`config.Load` one system call at a time: `Search`, `StatFile`, `AclSize` and
`AclData` (the two `Getxattr`), `ReadFile`, `Parse` with `Validate`; then
`gateway.New` and `Gateway.Start` listener by listener. `Change` is anybody who
edits, replaces or removes a file of the search path between two of them.
Permissions are what the owning group, a named group, others and the mask grant;
a document is a sequence of entries with the fields they have. A function maps
listen addresses, as written, to sockets, for two spellings may be one socket.
`Listeners` are the entries in the order in which `Validate` and `New` go through
them: by section, and within a section as written (`Before` orders them, `Turn`
counts those in front of an entry). `Seen` is the map of addresses in front of the
k-th listener. `clean` and `everBound` are history.

### `ConfigEdit`

`config.yaml` as a sequence of characters: a line has the name of a listener and
the characters of its credential, or is a comment. write(2) may stop, or be
overtaken, behind any byte, so that a file can end in a shortened credential and
the tail of a longer document can begin in the middle of a line; `Valid` says
which of these `config.Parse` takes. Each `Savers` element is a request in
`handleSave` and `writeConfig`, one action per system call and one per byte:
validate, open with `O_TRUNC`, write at the request's own offset (a write past
the end leaves `Hole`s, zeros), fsync, close; any of them may fail. `maybe` holds
the contents a loss of power may leave. `AdminTerm`, `AdminStops`, `AdminKilled`,
`AdminStart` are the admin service; `PreCheck`, `Start`, `StartFails`,
`GatewayEnds` the gateway service: ExecStartPre, ExecStart (which loads the file a
second time, and whose `gateway.Start` may fail on a valid file), Restart.
The file is first one of `Seeds`: the template of `remote-install.sh`, all comments,
which does not validate, or what an operator has made of it. `accepted`,
`opened`, `alone` and `torn` are history. An operator's editor, which may write
the file as it likes, is not modelled.

The `MC*` modules give TLC the values of structured constants.

Operators marked `mutant` are plausible bugs in the code: each states a
definition the way it would be with a guard dropped, an order swapped or a case
forgotten, and no specification uses them. For every property a run checks,
`PROJECT.json` names one with which TLC finds that property violated.

## The runs

| Run | Specification | Shows |
|---|---|---|
| `pipe` | `FairSpec`, 2 bytes each way, 1 buffered, path of 1 | order, no loss, flush before teardown, final counts, no end without a cause; departures end the session; delivery; refinement of `Relay` with its liveness: a direction that ends releases a blocked one |
| `gateway` | `FairSpec`, an HTTP and a TCP listener, 2 connections | the process survives panics; all listeners or none; sockets released; log lines correlate; HTTP requests drain, upgraded connections excepted; no request behind a finished Shutdown; a listener is closed before its Stop by its own Serve only; a stop is parallel and ends; nobody waits for a hanging handler |
| `config` | `FairSpec`, 2 concurrent saves of 3 documents over the installed template, byte by byte | what is served is valid, no byte of a rejected document gets in and none is displaced, "Saved" is durable, an orderly stop tears nothing, the gateway comes back |
| `sessions_free` | `Spec`, upstreams that send any 5 (PostgreSQL), 4 (MySQL), 6 (Oracle) messages | what each side sees when the upstream keeps to nothing; the upstream sees the configured login, for its own challenge, and then the client's stream; refinement of `CredentialSession` by the four services that have a session |
| `sessions_fair` | `FairSpec`, every honest mode, every client script | the configuration wins, packet numbers stay in step, exactly the AUTH is taken out, one answer per request in order, behind at most the end of Redis's `+OK` line; sessions open, refused ones end, early queries are answered |
| `startup` | `Spec`, every pair of 34 files, 2 changes, sockets of others | nothing passes the check that was exposed throughout; undisturbed, `Load` takes the `-config` file, or without one the first of the path, just if it is private and complete; a running gateway has all its listeners |

Six runs show a disagreement between the code and what the repository says of it:

| Run | Property | The repository says | The code does |
|---|---|---|---|
| `gateway_drain` | `AllListenersDrain` | README.md:142, all listeners drain within 10 seconds | the TCP proxies' Stop closes the listening socket only, and Shutdown does not wait for upgraded HTTP connections; the process exits under open relays |
| `config_error_page` | `ErrorMeansUnchanged` | server.go:175, "Rejected — file not changed" | also shown when write or fsync failed behind the truncation |
| `config_mixed` | `RefusesOrServesSubmitted` | server.go:107-109, the worst case is a gateway that refuses to start | a file cut in the middle of a credential, or mixed by two saves, may parse, and is served |
| `redis_auth_user` | `StartAuthConsumed` | redis.go:99-101, an AUTH at connection start is consumed | AUTH with a user name is forwarded |
| `http_headers` | `SetOnEveryRequest` | new-users-guide.md:136, headers the gateway sets on every request | one that is hop-by-hop or nominated by the client is removed behind the Director |
| `startup_binds` | `BadNeverBinds` | README.md:155, a bad config never binds a port | a malformed URL, or one socket under two spellings, passes `-validate` and is found when earlier ports are bound |

More disagreements met on the way, without a run of their own; the model follows
the code:

- README.md:129-133, "first found wins", lists the custom path third, behind the
  home and `/etc`; `Load` (config.go:61-69) takes the `-config` file whatever else
  is there. `LoadMatchesReference` states the code's order (`Chosen`).
- README.md:81 promises an accept and a close line of every connection; one that
  ends in front of its relay has no close line. `LogLinesCorrelate` says what holds.
- redis.go:60-63, "Anything that is not +OK means upstream rejected our configured
  credential": a "+OK" cut by the network is not +OK, either, and ends an accepted
  session (mode `split`).
- mysql.go:133, "forward the upstream result (OK or ERR)": anything else comes this
  way, too, and lets the client in (`More`; verdict "other").

### Bounds

Each is a constant, or a set in an MC module. The theorems hold for all their
values, so that for what is proved the bounds only say what TLC looked at.

- `Pipe`: `MaxSent` 2, `MaxHead` 1, `OutCap` 1. Two bytes a direction are the
  fewest that can be swapped, split between chunk and socket, or lost in part; a
  path of one byte blocks the writer at once.
- `Gateway`: no property relates more than two connections, and the two kinds of
  listener differ in everything that matters to a stop. HTTP comes first because
  `New` appends it first.
- `ConfigEdit`: two saves overlap in every way two can. The documents are a short
  one without a newline at its end, so that what is left of another can continue its
  credential; a longer one of two lines, the first with a credential of two
  characters, so that a prefix can be a shorter credential or a whole line; and one
  that is incomplete. The main run begins with the installed template, the runs of
  the two findings with the short document, as filled in by an operator.
- `Sessions`: a free upstream gets to the relay of its service along every path
  and goes on behind it: SCRAM needs four messages, MySQL two, Oracle four and a
  RESEND or an empty ACCEPT; it is at most `MaxAhead` 1 message ahead of the
  handler, which tells nothing apart as the handler reads them one by one.
  Honest modes need no bound. Two queries are the fewest that can be swapped.
- `RedisProxy`: two commands of three pieces are one that is inspected and one
  behind it, in every split.
- `HTTPProxy`: two requests, the first with any headers and nominations; three
  names, one of each kind, two values for one of them.
- `Startup`: two changes are one that exposes a file and one that hides it again;
  two entries a document are the fewest that can clash; every combination of
  permission bits.

### Fairness

- `Pipe`: a goroutine that can go on does, because the Go scheduler runs
  every runnable goroutine. Nothing is assumed of the peers, except by the two
  properties whose statement starts with `PeersRead`.
- `Gateway`: the same for `main`, each accept loop, each stop and the steps a
  handler takes without a peer. Handshakes, relays and requests may take for
  ever, and the deadline need not fire; only `StopTerminates` assumes that it does.
- `ConfigEdit`: systemd keeps starting the gateway (`Restart=always`); saves,
  kills and restarts owe nothing. `GatewayComesBack` assumes in its statement that
  the file stays valid and that losses of power and failing starts come to an end.
  The start rate limit of systemd is not modelled.
- `Sessions`: the handler and both directions of the relay go on when they can, an
  honest upstream answers, and a client sends what its script has (a Redis client
  need not). Nobody has to close, and a dial may fail. That two directions of one
  relay both go on is fair to assume because each is a goroutine.

`CHECK_DEADLOCK FALSE` stands where the system may really stop: a session that
is over, a process that has exited.

## The proofs

Eight modules hold theorems, one or more for each component that has state: `PipeProofs`,
`GatewayProofs`, `StartupProofs`, `ConfigEditProofs`, and for the connections of
`Sessions` `RepliesProofs` (HTTP and Redis), `PostgresSessionProofs`,
`MySQLSessionProofs` and `SessionsProofs` (Oracle, and all services together).

### The relay

`PipeProofs` proves for every value of `MaxSent`, `MaxHead` and `OutCap`
(naturals, `OutCap` not 0: `BoundsAssumption`, the only assumption):

- `TypeCorrect`, `AlwaysInOrder`, `AlwaysNoByteLost`, `AlwaysEofFlushed`,
  `AlwaysCountsFinal`, `AlwaysEndHasCause`: every invariant of the run `pipe`, as
  `Spec => []...`, and `AlwaysNothingLeaks`: when `pipe` returns, both connections
  are closed and both goroutines are over;
- `RefinesRelay`: `Spec => R!SafeSpec`, every step of `pipe` is a step of the
  abstract relay or leaves it unchanged.

None of the properties is inductive. `NoByteLost`, for instance, is kept by a
read only if the byte read is the one that comes next, and `CountsFinal` only if
no goroutine is still writing. The inductive invariant `IInv` (theorem
`Invariance`) is the conjunction of

- `Chunks`: head, receive queue, chunk in the copy, path and what the peer got
  are runs of consecutive numbers that fit together: each begins where the
  next stage's ends, except behind a loss;
- `Control`: the states of the two goroutines, the `sync.Once` and the
  connections that can occur together;
- `Accounts`, `Positions`: how the number of bytes sent, written, counted and
  delivered relate, in a live session and behind a loss;
- `Causes`: what must have happened for a connection to be closed or a copy to
  have failed.

The proof has a lemma per action and part; the arithmetic of runs is in lemmas
about `IsRun` (prefix, rest, append, tail) that the actions share. The
refinement proof maps `WriteByte` to `Forward`, `PeerReceive` to `Deliver`, the
first end of a copy to `BeginEnd`, `Return` to `Finish`.

### Listeners, handlers, stop

`GatewayProofs` proves every invariant of the run `gateway` for any sequence of
different listeners of either kind and any set of connections, finite or not
(`ListenersAssumption`): `AlwaysTypeOK`, `AlwaysAllOrNothing`,
`AlwaysEndsOnlyWhenAsked`, `AlwaysSocketsReleased`, `AlwaysLogLinesCorrelate`,
`AlwaysHttpQuiet` and `AlwaysHttpDrains`. A step is the process's, a
listener's, a client's that connects or a handler's; frame lemmas say what each
kind leaves alone. The invariants are proved one upon the other:

- `LifeInv` adds `Lifecycle`: while main starts the listeners, those before
  `next` are bound, unless their own `Serve` has ended, and the others untouched,
  and no goroutine of `Stop` runs before the signal. Without it a listener that is
  started again would undo `AllOrNothing`.
- `SockInv` adds `Handed` and `ClientOpen`: what `Accept` has returned waits at
  its own listener and nowhere else until its goroutine starts, so that no two
  handlers get one connection. It needs from `Lifecycle` that `Start` finds no
  accept loop on the listener it starts.
- `LogInv` adds that the counter is ahead of every id given.
- `QuietInv` adds `ServeOver`: once `Shutdown` polls, `Serve` does not accept any
  more. With `Handed` it excludes the connection that `Accept` has returned and
  that `Shutdown` does not see. What it says is about the connections that the
  server knows of: `HttpStep` lists what a step does to an HTTP connection, and an
  upgrade is the one that takes it out of `Tracked`. `AlwaysHttpDrains` follows
  from it and from `AlwaysEndsOnlyWhenAsked`.

### From the file to the ports

`StartupProofs` proves every invariant of the run `startup` for any set of files
with documents of any length (`FilesAssumption`: they are sequences), any sockets
and any number of changes between the system calls.

The invariant behind `AlwaysSafeWhenChecked` has, besides the path and the files, `CheckOK`: mode bits that
give no access were read at a moment when the file was private, and a private
file that is there now has been noted. `ModeBitsTell` and `GrantsTells` are the
two facts about permissions behind it: the mode bits of a file with an extended
ACL show the mask, and entries are judged without it.

`AlwaysTypeOK` and `AlwaysRunsComplete` rest on `BoundOK`: the listeners bound are
the first ones, each has its own socket that nobody else has, and outside of
`Start` there are none.

`AlwaysLoadMatchesReference` compares the code, which looks at a file five times and
keeps one map of addresses while it goes through five sections, with a look at the
whole file. `LoadInv` says what an undisturbed Load knows behind each system call
(`FoundOK`, `JudgedOK`, `ReadOK`) and that it has failed for a reason (`Justified`).
That `Validate` comes to "every field, no address twice" is `ValidateTells`. It
needs that the listeners are the entries of the document, each once: `Before` is
a strict total order (`BeforeOrders`), so no two entries have the same number of
entries in front (`TurnsDiffer`), and an injection of a finite set into itself
reaches every place (`TurnsTaken`).

### Saves

`ConfigEditProofs` proves every invariant of the run `config`, for any
documents and any file to begin with (`DocsAssumption`: they are sequences of
characters), any number of requests under way at once and any number of saves:
`AlwaysTypeOK`, `AlwaysBytesFromAccepted`, `AlwaysSavedIsDurable` and
`AlwaysWholeWhenQuiet`. The inductive invariant `IInv` adds

- `Pending`: a request behind the validation has a document that passed it, and
  its offset says how much of it is written;
- `Lone`: what the file and the disk hold while one save is undisturbed, step by
  step (`WholeWhenQuiet` says nothing until it has ended);
- `Over` and `Quiet`: an answered request is over; unless a save was torn
  whoever writes is alone, and when nobody does the disk holds accepted documents
  only.

`WrittenIs` is the fact about a write at an offset behind or before the end of
the file that all of it rests on. A kill, a failure, a restart and a stop are one
lemma, `AbandonKeeps`: they leave what the requests had written.

### The connections of each service

The constants are any services, scripts, configurations and messages of a free
upstream, in any number. Assumed are what a client can send at all
(`ScriptsAssumption`: HTTP requests are numbered in order, a MySQL client does
not begin with a query), that a MySQL packet number is a byte and no upstream
sends the gateway's own error text (`PeersAssumption`), and the types of the
rest (`KindsAssumption`, `BoundsAssumption`). Modes other than "free" stand for
honest or faulty servers of that protocol.

The properties select messages of a stream (the ones of the gateway, the ones
behind the login), which a recursive filter would do and the provers could not
reason about. The modules therefore say it by position or by counting
(`Connection!Count`, `IsFirst`); TLC checks these forms, and the lemmas about
counting are proved with the library's facts about cardinality.

None of the properties is inductive: that the client sees the upstream's stream
"from some message on" is kept by a step only if one knows from which, and how
far the handler is behind it. The invariant of each service says so for each
state of its handler:

- `HTInv`: between two requests nothing is under way, behind one its answer is all
  that can be, and what became of the headers of each request (`HTHeadersOf`).
- `RDInv`: which bytes are in the socket, in the `bufio.Reader` and written, and
  in which order the replies of the gateway and the upstream reach the client,
  for every split of a command into segments.
- `PGInv`: which of the client's messages was its startup, from which
  AuthenticationOk on the client sees the upstream (`PGGranted`), that in front
  of it every request for SCRAM was followed by the whole exchange (`PGProved`),
  and as many answers as challenges (`PGCounts`).
- `MYInv`: the place in the handshake, the packet that the client gets in
  each place of the numbering, and how an honest server counts on.
- `ORInv`: the message with which the upstream accepted or refused and the number
  of CONNECTs it took (`ORStreams`); from these two the place of every
  later message in all four streams is fixed (`ORSeen`, `ORDue`, `ORPlace`), those
  of the two interleaved logins included.

Each is proved with a lemma per action of the handler, one for the
client's steps, one for the upstream's, and one that says that the properties
follow. `SessionsInv` puts them together. Proved are `AlwaysTypeOK`,
`AlwaysClientSeesOnlySession` and `AlwaysUpstreamSeesConfig` for all services,
`AlwaysGrantNeedsSignature` and `AlwaysAnswersChallenges` (PostgreSQL),
`AlwaysNumbersInStep` (MySQL), `AlwaysClientBytesOnce` (Redis) and
`AlwaysRepliesMatch` (Redis, HTTP): every invariant of the runs `sessions_free`
and `sessions_fair`.

`RefinesSession` is `Spec => ImplementsSession`: every handler, whatever its peers
do, implements `CredentialSession`, with the stronger half of it for PostgreSQL,
Oracle and Redis, whose verdict is never "other". `MayGo` lists what a step may do to the three
values that the abstract session sees (`Phase`, `Verdict`, `Passed`): nothing, one
of its five actions, and never two at once. `XXRefines` shows it for each service,
action by action, from that service's invariant; `MayGoIs` says that it is a step of
`CredentialSession`. What is needed beyond the invariants:

- that the upstream's verdict is never taken back (`XXVerdictGrows`). For Oracle
  this is not plain, for `Settled` is chosen: that the least place at which the
  upstream can settle exists is `Least` (every set of naturals that is not empty has
  a least number), which follows from the library's theorem that the strict subsets of
  finite sets are well-founded;
- a handler that lets the client in has the acceptance behind it: `PGRefines` finds
  AuthenticationOk among what was sent, `ORRefines` the verdict three messages
  behind the ACCEPT, `RDAcceptedIs` the whole `+OK`, its first segment with all
  three bytes, or the second half; `MYRefines` finds that the packet which is no
  error and no switch is an OK or "other";
- how a message that is appended counts (`OthersAppend`, `RDBehindAppend`): the
  gateway's own messages and the client's are told apart by their types, so exactly
  what the relay passes on raises `Passed`.

### Only model-checked

- Liveness under fairness, which the provers cannot reach: `SessionsSettle`,
  `QueriesAnswered`, `DepartureEndsSession`, `Delivered`, `StopTerminates`,
  `StopIsParallel`, `NobodyWaitsForOthers`, `GatewayComesBack`, and the temporal
  half of `ImplementsRelay`.
- That the findings' runs find what they find: a violation is a behaviour, not a
  theorem.

Every invariant of every run that passes is a theorem.

## Not modelled

The content of messages beyond what the code branches on: cryptography, parsing
of parameters, log texts. A handler's panics on malformed messages are one
action of `Gateway` and the end of a session in the proxies' modules. MySQL's
capability flags, which the gateway announces in its own name: nothing in the
code reads them behind the login. The stub of the ACL check for other systems
than Linux. Log level, formatting and the version flag, which change no state.
systemd's rate limit, the same-origin check and `handleIndex` (it only reads). A
loss of power leaves some content the file had since the last fsync, not a
mixture of its disk blocks. The scripts and the release tooling, which an
operator runs and which touch the program only through its files and restarts.
