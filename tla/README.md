# A TLA+ model of socksprox

socksprox is a SOCKS5 proxy in C: one thread runs an epoll loop and a state
machine per session; a second thread looks names up; a third writes logs. This
directory holds models of all of them, the TLC configurations that check the
models, and machine-checked proofs of the safety properties the runs check. Paths
are those of the repository under `src/`, so `src/src/socks.c` is the `socks.c` of its source
directory.

## The system

| Component | State | Operations | Talks to |
|---|---|---|---|
| Session state machine (`socks.c`) | `Shared.state`, `Info`, two `Data` | one handler per state, dispatched by `socks5` | network layer, epoll, resolver, firewall, logger |
| Ring buffers (`epoll_data.c`) | `buff`, `readhead`, `writehead`, `used` | write, peek, consume | every handler that reads or sends |
| Network layer (`net.c`) | descriptors, sockets | accept, connect, bind, udp associate, relay | session, epoll |
| epoll registration, `free_data` (`epoll_data.c`) | the kernel's interest list, ownership of `Data`, `Shared`, `Info` | add, modify, delete, free | session, event loop |
| Event loop (`socksprox.c`) | one batch of events | `epoll_wait`, dispatch by type | all of the above |
| Resolver (`resolver.c`) | two pipes, a thread | `resolve`, `resolver_th`, `resolve_ret` | session, through a bare `Shared` pointer |
| Firewall (`firewall.c`) | list of networks | parse, match | session (literal addresses only) |
| Configuration (`config.c`) | `Configs` | parse, check | read-only afterwards |
| Logger (`logger.c`) | a pipe, a thread | log, join | written to by everyone |

A session goes `WAITING_METHODS`, `SENDING_METHOD`, `WAITING_COMMAND`, perhaps
`ASYNC_DNS`, then by command: `CONNECTING`, `SENDING_REPLY`, `FULL`; or
`SENDING_REPLY`, `BIND_LISTENING`, `SENDING_REPLY_2`, `FULL`; or
`SENDING_REPLY`, `FULL_UDPA`; and in the end `HALF_CLOSE` and `CLOSED`. Any
error of the handshake leads to `CLOSED` at once (`handshake_err`).

What is hard:

* *Events that are already out.* `epoll_wait` returns a batch of pointers and
  masks. They are served one after the other, and serving one may free what
  another refers to, or change the state it will be handled in.
* *Two ends, one record.* Client and server share a `Shared`. The first end to
  leave frees the `Info` and both buffers, the last one the record.
* *Arming.* One descriptor's handler fills the other's buffer and has to arm
  its `EPOLLOUT`; the other's own handler disarms it.
* *`info->rep`* is the result of the init functions, the reply code, and the
  sign that a reply was sent already.
* *The resolver* answers at any time, or never.
* *Failing calls* in the middle of a handler that has changed state.
* *Lengths*: how long a request is, whether a read fits into the buffer, where
  a copy wraps around.

What makes each component correct: a session answers a request, relays the
bytes after it and only those, never touches freed memory, and gives back what
it had; a ring buffer is a FIFO; the loop serves whatever is ready; the
resolver answers each request once, to the session that asked; the firewall
blocks the listed networks and no others; the configuration is read as its
document says and stays within its buffers; the logger ends when it is told to.
Not all of this is so: the runs below say what holds, and under which
conditions, and which runs stop where it does not. `PROJECT.json` lists the
hazards line by line with the property that covers each.

## Modules

| Module | What it is | Code |
|---|---|---|
| `Session` | one session with its kernel, client, server and resolver | `socks.c`, `net.c`, `epoll_data.c` |
| `SessionProps` | the properties of `Session`, its fairness, its refinement mapping | |
| `Lifecycle` | abstract: who holds the shared record, and what of it is left | |
| `ByteQueue` | abstract: a bounded FIFO of bytes, all-or-nothing writes | |
| `RingBuffer` | `Ringbuff` with its array, heads and two-piece copies; refines `ByteQueue` | `epoll_data.c` |
| `Pipe` | a nonblocking pipe: whole writes or none, reads of what there is | external |
| `Resolver` | the two pipes and the thread, requests of several sessions, reused `Shared` records | `resolver.c` |
| `Logger` | the pipe, the thread and the join at the end | `logger.c` |
| `Server` | startup, several descriptors over one epoll instance, the ways out | `socksprox.c`, `net.c`, `resolver.c` |
| `Firewall` | netmasks, the list of rules, the match | `firewall.c`, `config.c` |
| `ConfigFile` | the reader of lines, over a buffer that is never cleared | `config.c` |
| `Settings` | what becomes of the settings, and what a start requires | `config.c` |
| `MC...` | values of the constants for TLC | |
| `RingBufferProofs`, `FirewallProofs`, `ServerProofs`, `LoggerProofs`, `ResolverProofs`, `SettingsProofs`, `ConfigFileProofs` | theorems about these modules | |
| `SessionProofs` | three parts: what is allocated, registered and buffered in each state of a session; replies, refusals, what is left behind, `Lifecycle`; the relayed bytes | |

How they fit together: `Server` treats a session as one descriptor that is
served, and shows that each ready descriptor is served in its turn; `Session`
assumes just that as its fairness of `epoll_wait`. `Session` lets the resolver
answer a request at most once, in any way or never; `Resolver` shows that it is
at most once (`OneOutstanding`) and never to another session. `Session` counts
what its two buffers hold; `RingBuffer` shows what they do with the bytes.
`Session` has a flag for a blocked address; `Firewall` computes it. `Server`
leaves the join of the logger to `Logger`, and what `parse_configs` reads to
`ConfigFile` and `Settings`.

### Session

The variables follow the structs: `state`, `client_out` and `server_out` (the
`used` of the two buffers) from `Shared`; `method`, `rep`, `cmd`,
`resolver_ret`, `sa`, `ai`, `ai_index` from `Info`; `data` and `mem` say which
allocations are alive. `fd`, `reg`, `batch`, `orphan` are the kernel's: open
descriptors, the interest list, the events of the current batch not yet served,
and descriptors left open that nothing refers to. `ssock` is the proxied
socket; `unread`, `gone`, `sent`, `offer`, `req` are the two remote ends. `dlv`
and `replies` record what has been delivered and which replies were queued;
nothing in the program reads them.

There is one action per handler, with the handler's name: `waitingmethods`,
`sendingmethod`, `waitingcommand`, `sendingreply`, `connecting`,
`bindlistening`, `full`, `half_close`, `closed`, and `accept_new_client`,
`resolve_ret`, `epoll_wait`. What a handler calls is an operator inside it:
`init_command`, `init_connect`, `init_bind`, `init_udpa`, `reply_with_err`,
`handshake_err`, `send_traffic`, `read_traffic`, `free_data`. `ignore` is an
event the dispatch or the handler passes over. The rest of `Next` is the world:
the ends send, close and reset (`ClientSends`, `ServerSends`, `Closes`,
`Resets`), connection attempts end (`ConnectEnds`), somebody connects to a bind
listener (`Knocks`), the resolver thread answers (`resolver_th`).

Each failing call is a disjunct guarded by a member of `Faults`, at the place
the code tests for it, with what was changed before it left changed.

Data is abstracted to what the properties tell apart:

* *Units instead of bytes.* A method request is two units and a command request
  two, or three when it names a host: the third is the last byte, the one the
  length computed in `waitingcommand` leaves out. The first unit holds the five
  bytes that length is computed from. A reply is one unit. All of
  them may be cut at unit boundaries by the network.
* *Addresses* are a family and whether the firewall blocks them. That is decided
  for literal addresses only, as in the code: the path through the resolver
  does not call the firewall.
* *The log* is left out.
* *A batch* holds at most one event per descriptor, with the mask computed when
  `epoll_wait` returned. The order of serving is arbitrary. `EPOLLHUP` is
  reported for a socket without a connection; by itself it is passed over.
* A socket's send space is not counted: a socket may or may not be writable, and
  a send takes any positive part of what is offered.
* A connection refused by `bindlistening` for its family, address or port is
  one disjunct; the kernel's `EAGAIN` when nothing is pending is in the fault
  `bind_accept`.
* A failed `epoll_ctl(EPOLL_CTL_MOD)` is left out: it fails for an unregistered
  descriptor, and `RearmsRegistered` says there is none.
* The flags of a half-closed end are set in the code and never read; they have
  no variable.

Sizes: `Cap >= 4` and `ReadMax <= Cap` (assumption `SizeAssumption`) stand for
4096 bytes against at most four messages of 22 bytes and reads of 1024.

### RingBuffer

The struct, its three functions, and the three ways they are called: a write
(`Write`), a peek of which the sent part is consumed (`Read`), and the clearing
of the handshake's input (`Discard`). Its contents before the first write are
arbitrary, as after `malloc`.

### Resolver and Pipe

`state` is the part of each session's state the lookup is about; `inp` and
`outp` are the two pipes; `pc`, `shared`, `name_len`, `name` and `port` are the
thread and its locals. A request is a sequence of units that stand for its
bytes and know whose they are, so that a misread request can be told from a
whole one; the unit at `GapAt` is the byte of `msg` that `resolve` does not set
and the thread takes for the length. The thread's four reads are four actions,
`ReadPointer`, `ReadLength`, `ReadName`, `ReadPort`; each may come back short,
and the request is then given up with what was taken of it (`GiveUp`). `Lookup`
is `getaddrinfo`, the store through the pointer and the answer. A pointer put
together from bytes of something else is `Wild`; its use ends the behaviour
(`crashed`), eight zero bytes end the thread (`ended`). Bytes a client chose are
always `Wild` where they are taken for a pointer: that they happen to be the
address of a live record is not in the model, nor in what `OneOutstanding` says. `Reused` ends a session
and hands its address to the next one.

`intact` records that every write so far found room and every unset byte
happened to be the length. What a session may hope for depends on it, what must
never happen does not.

### Logger

`pipe`, and the thread with the part of a message it has read (`entry`).
`OpenFiles`, `Poll`, `ReadType`, `ReadCode` and `ReadAccess` are the steps
between two system calls of `logger_th`. `log` is `log_error` and `log_access`,
one write each; `log_sig_join` writes its byte and goes on to `pthread_join`.
An entry whose code is not there is written all the same: `logger.c:179`
compares the -1 of `read` with a `sizeof`, as unsigned numbers. `TypeOK` is the
reason that this does not occur.
`logged` and `accepted` are history: what was handed to the logger, and what the
pipe took. A unit is a field of a message, since a message is written whole and
its fields are read with their sizes.

### Server

`phase` is where `main` is. `queue` is epoll's ready list, `ready` the
descriptors that do have something to report; `epoll_wait` takes as many from
the head of the list as the array has room for and puts them at its end, as the
kernel does for level-triggered descriptors. Serving a listener is
`accept_new_client` or `listener_error`, serving a client is a session's step
seen from outside: it drains the descriptor, leaves something, or ends the
session and closes it, so that its number is free again. `init_listener` is one
round of the loop in `init_listeners`; a failed `listen` leaves the socket
registered, and epoll reports a hang-up of it. `exits` is the return behind each
of the five calls of `log_sig_join` in the setup and in the loop
(`socksprox.c:39`, `:44`, `:52`, `:77`, `:97`); `socksprox.c:113` stands
behind an endless loop and is never reached.

### Firewall

An address is a function from bit positions to bits, with the widths as
constants: 32 bits of a word, or 16 octets of 8. `firewall_iton` builds the two
netmasks as the code does, one with a shift of a word, one octet by octet; the
shift by the whole width, undefined in C, is a choice of either outcome a build
can give. `link_blocks` masks the address of the line and links the node in
front. `check_sin` stands for both list walks, which differ in the comparison
only. `InNetwork` is the reference: the first `mask` bits agree.

### ConfigFile and Settings

`ConfigFile` reads a file line by line as `parse_configs` does: `fgets` into the
same buffer, then `skip_whitespace`, `get_key`, `to_value`, `get_val`, each with
the stops it tests for, over whatever the buffer holds. An index past a buffer
is the status `overrun`. This does occur: `get_key` looks for a separator and
for nothing else, so that a key of exactly the size of `key` has its NUL written
to `key[64]` (`config.c:115`), and one that no separator follows is read on
past the NUL of the line, into what earlier lines left. `OverrunIsTheKeys` says
that nothing else in the parser leaves a buffer: not the skipping of blanks, not
a value, not a comment, not a line longer than the buffer, whatever the file and
the buffer hold. `Expected` is the reference: the README's description
of the file, line by line, without a buffer; `Described` says which files that
description is about and adds the limits of the buffers, which `README.md:29`
does not mention. On a value with a blank inside the README is silent; `Expected`
ends it there, as the code does.

`Settings` takes each setting that was read into `Configs` as `store_config`
does, by key, and then judges the whole as `conf_error_check` does. What the
code tells apart of a value is kept: whether it is "yes" or "no", a known method,
a text `getaddrinfo` has an address for, whether the delimiter is there.

## Runs

All with `CHECK_DEADLOCK FALSE` but the first: a session ends, a program exits,
a bounded file is read, and `epoll_wait` may block for ever.

| Run | Instance | Properties |
|---|---|---|
| `ring` | 3 cells, 2 byte values, writes of 0 to 4 bytes | `TypeOK`, `HeadsAgree`, `IsQueue` |
| `all` | all commands by address and by name, granted, blocked, malformed; three method offers; two addresses per name; every failing call; a client that does not wait, ends that send more than the buffers hold | `TypeOK`, `PendingEventsLive`, `InfoLive`, `RearmsRegistered`, `WakeupArmed`, `RelayAfterReply`, `OrphansBounded`, `BlockedNeverReached`, `DownstreamKept`, `UpstreamKept`, `GrantIsFinal`, `ImplementsLifecycle` |
| `live` | connect and bind to literal addresses; the liveness properties under fairness | `GrantedIsConnected`, `RequestAnswered`, `RefusalEnds`, `FailedConnectReleased`, `StreamMoves`, `HalfCloseEnds` |
| `resolver` | 2 sessions, 4 requests of names of 1 or 3 units, every value of the unset byte that makes a difference, pipes that fill up; under fairness | `OneOutstanding`, `QueryUnderWay`, `PipeDrains`, `RequestAnswered` |
| `logger` | 4 entries of two layouts, a pipe for one long and one short entry and a half, files that open or do not; under fairness | `TypeOK`, `InOrder`, `JoinedMeansWritten`, `AcceptedIsWritten`, `JoinTakesEffect` |
| `firewall` | 2 rules of either family, IPv4 of 3 bits, IPv6 of 2 octets of 2 bits, every address | `TypeOK`, `ListedIsBlocked`, `OthersAccepted` |
| `server` | 2 listeners, 2 clients and the resolver, 2 events a turn, every failing call; under fairness | `StartedWhole`, `NoLostWakeup`, `EachServed`, `ListensOrEnds` |
| `config_file` | every file of two lines the README describes that fit into a buffer of 6 characters, keys of up to 2; and every file of up to 6 characters, NULs and lines longer than the buffer among them | `DescribedIsRead`, `OverrunIsTheKeys` |
| `settings` | a complete file or one with a line missing, and one more line in front and one behind | `AcceptedAsWritten` |

Bounds, and why they are enough:

* `all`, `live`: `MaxClient` and `MaxServer` bound the units the ends send. In
  `all` the server may send one unit more than its buffer holds, the client one
  more than a request by address and its buffer, from the first moment on: the
  buffers fill to `Cap`, reads of `ReadMax = 2` and sends are partial, and either
  end may close with bytes in either buffer. Each of the ways to break a stream
  that `DownstreamKept` and `UpstreamKept` allow occurs: an overflow in either
  direction, data behind the request, a name taken one unit early. `live` has a
  unit or two to relay in each direction.
* `ring`: three cells let every position of the two heads, every wrap, full and
  empty occur, and the longest write is longer than the ring.
* `resolver`: the request pipe holds one long request and part of a second, so
  that writes fail and short reads happen in every position; the unset byte may
  be too small, right, too large, or zero; the answer pipe holds one answer, so
  that the second is lost. Two sessions are enough for one to receive what is
  the other's, four requests for a reused address while an old request is
  still misread.
* `logger`: a write fails with the pipe at several fill levels, also with room
  for a part of the message; the thread may be at any field when the join comes.
* `firewall`: a netmask of two octets has a full, a partial and a zero octet and
  every boundary; two rules let the first, the second, both or none match. The
  theorems lift every bound.
* `server`: five descriptors and room for two events keep three waiting; a
  backlog of two keeps a listener ready after an accept.
* `config_file`: two lines are enough for the second to see what the first left;
  lines reach the last place of the buffer, keys the limit of theirs. Of the
  files of any content, a key reaches the end of its buffer of 3, a line takes
  two pieces, and NUL, separator and newline stand at every place.
* `settings`: the last line that counts may come before or after the one in the
  middle, or be the only one.

`live` has no name to look up, since `GrantedIsConnected` fails for a second
address. `firewall` takes the masks for which the code builds a netmask: 0 of
IPv4 and masks out of range are left out. What lies outside of these is below.

Three runs show a place where the program does not do what its documents say;
each stops at a counterexample.

| Run | Property | Where | What happens |
|---|---|---|---|
| `close` | `ClosedReleases` | `socks.c:28` | the end of a silent peer is never released |
| `resolver_name` | `LooksUpWhatWasAsked` | `resolver.c:124` | the name is looked up one byte displaced: it starts with the length byte and lacks its last character |
| `config_key` | `StaysInBuffers` | `config.c:115` | a key of the size of its buffer, in a line as the README describes it, has its NUL written one past the buffer |

Further configurations stop at a counterexample as well. Each is one property
under the conditions the runs above exclude, and can be run with
`tlc -config <name>.cfg <module>`.

| Configuration | Property | Where | What happens |
|---|---|---|---|
| `MCSession_domain` | `UpstreamExact` | `socks.c:248` | a request by name is taken one byte early; the byte is dropped, or sent to the server |
| `MCSession_overflow` | `DownstreamExact` | `net.c:547` | what is read while the other buffer is full is lost |
| `MCSession_upstream` | `UpstreamExact` | `net.c:547` | the same in the other direction |
| `MCSession_early` | `UpstreamExact` | `net.c:254` | what the client sends behind its request, before the reply, is cleared with the request |
| `MCSession_refused` | `RepliesPerCommand` | `socks.c:331` | a command that is not allowed is answered twice |
| `MCSession_flush` | `FlushedBeforeClose` | `socks.c:633` | a closing server's last bytes are dropped |
| `MCSession_retry` | `GrantedIsConnected` | `socks.c:482` | a second address that fails at once is reported as a success |
| `MCSession_errno` | `ProperErrorCode` | `socks.c:487` | error numbers are tested with `&`, so most failures are "network unreachable" |
| `MCSession_orphan` | `NoOrphans` | `socks.c:538` | a refused bind connection keeps its descriptor |
| `MCLogger_exit` | `EnsuresPendingLogs` | `logger.c:240` | an entry that finds the pipe full is dropped; what is written before the exit is what the pipe took |
| `MCFirewall_zero` | `ListedIsBlocked` | `firewall.c:27` | a mask of 0 shifts an IPv4 netmask by its width; a build that leaves all bits blocks one address instead of all |
| `MCFirewall_mask` | `OthersAccepted` | `config.c:258` | a mask out of range is refused, the result ignored, and the rule kept with a netmask of zeros: it blocks every address of its family |
| `MCServer_max` | `MaxConnections` | `socksprox.c:74` | `max-connections` bounds the events of a turn, not the connections |
| `MCConfigFile_long` | `ReadsAsDocumented` | `config.c:362` | the tail of a comment longer than the buffer is read as a line |
| `MCConfigFile_stale` | `ReadsAsDocumented` | `config.c:111` | a key alone on a last line without a newline takes its value from what an earlier line left behind the NUL |
| `MCSettings_defaults` | `DefaultsAccepted` | `config.c:159` | the file `install-script.sh` writes has a `listen` without a port, which the parser refuses: the server does not start |

Noted while reading, without a configuration: a method request and a command in
one segment stall until the client sends more; a client that leaves in
`CONNECTING`, `BIND_LISTENING`, `ASYNC_DNS` or `FULL_UDPA` is not noticed there;
a failed `malloc` in `waitingcommand` leaves the state as it is; `init_udpa`
reads the advertised address from the list node; `Alog` is never freed;
`get_ip_port` hands the whole `sockaddr` to `inet_ntop` and does not convert the
port; `addr_only_gai` links every address three times, once for each kind of
socket; a `bind-listen-address` and a `bind-advertise-address` of different
families pass `conf_error_check`, and no bind can then succeed; the sample file
names an option `-t` that `main` does not look at.

## Fairness

`SessionProps!FairSpec` assumes what the loop and the kernel give, and that
remote ends keep reading:

* weak fairness of each handler, of `accept_new_client` and of `resolve_ret`:
  one thread runs the loop, handlers do not wait, and every event of a batch is
  served before the next `epoll_wait`;
* strong fairness of `epoll_wait` reporting each descriptor, and its `EPOLLOUT`:
  epoll is level-triggered and takes its ready list in turn, so a descriptor
  that is ready again and again is reported (`Server!EachServed` shows this of
  the ready list). For `EPOLLOUT` it says that a socket becomes writable again
  and again, that is, that both remote ends keep reading: an assumption about
  client and server, since a peer that stops reading stops its stream for good;
* weak fairness of `ConnectEnds`: the kernel ends each connection attempt with a
  connection or an error.

Beyond that they keep reading, nothing is assumed of clients and servers: they
may send or not, close or reset at any point, and the liveness properties name
the cases in which they stay. The resolver thread need not answer.

`Resolver!FairSpec`: the thread runs, its reads do not wait and `getaddrinfo`
returns; the loop serves the answer pipe. `Logger!FairSpec`: the thread runs and
`pthread_join` returns once it has ended; nothing is assumed of `main`, which
may log nothing further. `Server!FairSpec`: the loop turns, weak fairness of
`epoll_wait` and of serving an event; the order is the ready list's, and which
events come is not assumed.

## Proofs

Checked by TLAPS for every value of the constants that satisfies the named
assumptions.

**RingBuffer** (`CapacityAssumption`, `SourcesAssumption`, `ByteAssumption`).
`RingTypeCorrect`, `HeadsAlwaysAgree`, and `RingIsQueue`: a ring of any capacity
implements `ByteQueue`. The invariant is `RingOK(rb)`: the ranges of the fields
and the agreement of both heads with the count. It is needed because a write
lands where the write head says and a read starts where the read head says; the
bytes held are a queue only while the two agree. The lemma `Peek` says what is
copied out, `WriteAppends` and `ConsumeDrops` what the other two functions do to
the contents, and each action then matches one of `ByteQueue`.

**Session** (`ConfigAssumption`, `WorldAssumption`, `SizeAssumption`).
`TypeCorrect`, `PendingEventsLiveAlways`, `InfoLiveAlways`,
`RearmsRegisteredAlways` and `WakeupArmedAlways`. None of the properties is
inductive: that a read of the handshake leaves room for a reply depends on what
is buffered in each state, that a pending event finds its `Data` depends on
which events may be pending in `CLOSED`, and that the server is registered when
relaying starts depends on `rep` while its reply is sent. The invariant `IInv`
fixes, state by state, what is allocated, open and registered, what is buffered
and which replies are queued. `Invariance` proves it: one lemma per action, with
lemmas for the init functions under `waitingcommand` and `resolve_ret`.

**Session, seen by the client** (the second part of `SessionProofs`, the same
assumptions and no others). `RelayAfterReplyAlways`, `OrphansBoundedAlways`,
`GrantIsFinalAlways`, `BlockedNeverReachedAlways` and
`SessionImplementsLifecycle`. `IInv` says which replies may be queued, not how
many were sent; `Replied` adds, state by state, which replies there are, that
what was delivered and what is buffered add up to them (`Told`), and what the
failures have left behind by then. `RelayAfterReply` and `OrphansBounded` are
its parts, and `GrantIsFinal` follows step by step: the handlers that queue a
reply find none of success. `Refusing` says how far a request for a blocked
address gets: to its refusal, in a state that has no server end. For the
refinement `Phase`, `Ends` and `mem` are followed through each handler
(`LifeIs` gives the mapping in these terms), and each handler is one action of
`Lifecycle` or a stutter.

**The streams** (its third part). `DownstreamKeptAlways` and
`UpstreamKeptAlways` need no assumption on what the ends do or how much they
send; failing calls, closes and resets are in them, as is every command. A
stream that is exact becomes inexact in one kind of step only: a read that finds
too little room (`Overflows`, which speaks of amounts and not of what the code
decided). The stream to the server may besides be inexact from the moment the
relay starts, when more than the request was taken (`EarlyData`) or when a
request by name was taken one byte early (`NameCut`); the stream to the client is
never inexact then. `Before` says, for each state in front of the relay, that
nothing was read from a server, and that what was taken from the client is at
least the request, as far as it counts as complete. `ExactIs` puts both
properties as balances of what was taken and what was passed on, `FullBalance`
follows them through the relay, and `BalanceStep` joins the two at the step into
it. `OnlyOverflowLoses` is the same of a single unit. That the streams are exact
throughout (`DownstreamExact`, `UpstreamExact`) is no theorem: it takes bounds
that the code does not enforce, each with its counterexample
(`MCSession_overflow`, `MCSession_upstream`, `MCSession_early`,
`MCSession_domain`).

`GrantedIsConnectedAlways` has the hypothesis `SingleAddress`: no name has a
second address, or `Literal`, that is, no name is asked for or names are not
allowed. `MCSession_retry` is the counterexample without it. `Attempt` says that a
connection whose end is being reported has ended.

**Logger** (`LoggerAssumption`). `TypeOKAlways`, `InOrderAlways` and
`JoinedMeansWrittenAlways`. The hard part of `TypeOK` is that the thread, which
checks none of its reads of an access entry, finds the field it asks for. That
is not inductive: to know what is behind the field one must know every message
in the pipe. `LogInv` says that there is a function `at` that gives the place
where each accepted and unwritten message begins (`Cut`), counted from the first
unit of the message being read; behind the last there is nothing or the byte of
the join. Reading a field moves a unit from the pipe to `entry` and leaves every
place (`CutKept`), writing an entry takes off the first message (`CutShorter`),
a log call appends one (`CutLonger`). With that, what is written is the first message accepted, and
the thread meets the byte of the join only when nothing is left.

**Resolver** (`ResolverAssumption`). `OneOutstandingAlways` holds whatever is
lost or misread. A query is followed by the first unit of its pointer: a pointer
the thread can make use of is read whole, so that each request in the pipe, the
one at the thread and each answer has exactly one place. `Once` says that these
places are one at most, and that the session waits; it does not matter where
the thread thinks a message begins. `QueryUnderWayAlways` does need that: as
long as `intact` holds, the pipe is a row of whole messages (`Framed`), the
thread is at a field of the first (`InStep`), and each session that waits has
its query somewhere (`Tracked`).

**Firewall** (`FirewallAssumption`, and `Proper`: an IPv4 mask is between 1 and
the width of a word, an IPv6 mask between 0 and its width). `NetmaskIsPrefix`:
both ways of building a netmask give the one whose first `mask` bits are set;
for IPv6 this needs that the loop reaches octet `i` exactly when more than
`i * OctetBits` bits remain (`LoopReaches`), a fact about products
(`ProductMonotone`). Two masked addresses are then equal exactly when the
addresses agree on the prefix (`MaskedAgree`). The invariant `IInv` of the list
says that each node is the masked form of its line; with it
`ListedAlwaysBlocked` and `OthersAlwaysAccepted` hold for lists of any length.
`Proper` is needed: `MCFirewall_zero.cfg` and `MCFirewall_mask.cfg` are the
counterexamples without it.

**Server** (no assumption but the types of the constants).
`StartedWholeAlways`: the property speaks of the loop alone and is not
inductive; `Settled` adds what holds one phase earlier. `NoLostWakeupAlways`
turns on the order of epoll's ready list, which `epoll_wait` cuts at
`max_conns`, thins out and extends at its end, and which a closing session
leaves from the middle. `Kept` is the model's operator for "what remains of a
list, in its order"; it is a recursive function, and `KeptRuns` shows that its
recursion has exactly one solution, `KeptExcerpt` that the solution is an
excerpt: the members are those kept, and their order is the list's. The
invariant `Listed` says that the list has no entry twice and has every ready
descriptor. `NeverOvertaken` is the reason for `EachServed` and holds for every
`max_conns`: with `Before(f)` for what stands in front of `f` in the list, no
step puts anything there, and an `epoll_wait` that does not report `f` takes
something away. A ready descriptor is therefore reported after no more turns than
the list is long; that the turns come is fairness.

**Settings** (`SettingsAssumption`). `AcceptedAsWrittenAlways`. The invariant
`Written` says of the settings stored so far what the property says of the whole
file: for each key the stored value is the one of its last line up to here
(`AllowAs`, `MaxAs`), or that of all of them (`MethodsAs`, `ListenAs`,
`AddrsAs`); and the rules in `block_head` are the block lines in the reverse of
their order (`BlocksAs`). A file that has no `max-connections` is told from one
that has by `conf_error_check`, which rejects what is below 1. For `block` the
property counts lines (the n-th block line is the one with n block lines up to
it), and `CountsDiffer` says that no two lines have the same count.

**ConfigFile** (`ConfigFileAssumption`). `OverrunIsTheKeysAlways` holds for every
file and every content of the buffer. Whatever `fgets` puts into the buffer ends
with a NUL (`NulIsThere`); every search but that of `get_key` stops there, and a
key that ends in its buffer and in front of the NUL leaves the value a place to
stop as well (`EndedKeyStays`). `DescribedIsReadAlways` is about every file too;
what it says of a file has the condition `Described(source)`: the file is as
`README.md` describes it, and each of its lines and keys fits into its buffer.
Nothing is assumed of what the buffer held before. `config_key`,
`MCConfigFile_long` and `MCConfigFile_stale` are counterexamples without the
condition. `ReadSoFar` says that
the reader stands at the start of a line and that what is stored is what the
lines in front of it say. The proof has three parts: `fgets` takes exactly one
line and leaves it in the buffer with its end (`OneLine`); in such a buffer the
searches of the code stop where those of the reference do, for a blank line, a
comment and a key (`BlankRead`, `CommentRead`, `KeyRead`), although the code
looks for its ends among more and other characters; and the list of what is told
grows by one entry for each line that has a key and a value (`ToldNext`,
`AsSaidNext`).

Where a search or a recursion has to be reasoned about, the proofs state
induction in terms of sets (`Least`: a set of numbers that is not empty has a
least member; `Induction`: a set with 0, and with each number the next, has
all), since the theorems of the library that take an operator are out of the
prover's reach.

Only model-checked: the eleven liveness properties, which are beyond the prover
(fairness, `ENABLED`): `RequestAnswered` of a session and of the resolver,
`RefusalEnds`, `FailedConnectReleased`, `StreamMoves`, `HalfCloseEnds`,
`PipeDrains`, `AcceptedIsWritten`, `JoinTakesEffect`, `EachServed`,
`ListensOrEnds`. Every other property of a passing run is a theorem, and
`GrantedIsConnected` under the hypothesis above.

## Not modelled

* `full_udpa`, which is not written yet: the model has the state and no action
  leaves it.
* A send that waits: the descriptor accepted for a bind is not made nonblocking
  (`socks.c:516`), and the models assume that a handler ends.
* What two sessions share besides epoll, the resolver and descriptors: nothing
  in the code, so that `Session` has one session and `Server` treats sessions as
  opaque.
* Names of 128 characters and more, where the length is a negative `char`
  (`resolver.c:121`) and where the copy exceeds the thread's `name[256]`
  (`resolver.c:69`): names are shorter in `Resolver`.
* In the configuration: failing `malloc`, an address longer than the local
  buffer of `store_config`, and which texts `getaddrinfo` takes.
* Code nobody calls: `log_custom`, `listen_err`, `free_configs`, `yesno`; and `check_ai`,
  which is reached only for a request without a literal address, for which
  nobody calls `firewall` (`socks.c:320`).
* The layout of log entries; a signal that interrupts `epoll_wait`, which ends
  the server, is `epoll_wait_fails`.
* `methods.c`, `methods.h`: empty. Build and installation files, but for the
  configuration the installer writes.

## Plan

Done: `Session` with its properties, `RingBuffer`, `Resolver`, `Logger`,
`Server`, `Firewall`, `ConfigFile`, `Settings`, and proofs of their safety.
Left, in this order:

1. `Relay`: two `RingBuffer`s and the flags, byte by byte; abstract
   specification: two streams, each a prefix of what was sent.
2. The safety core of the other liveness properties, as `NeverOvertaken` is
   that of `EachServed`: a measure that no step increases.
