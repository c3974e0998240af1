# Verification of rpcmple

TLA+ models of [rpcmple](https://github.com/acs48/rpcmple), a small library for remote procedure
calls and publishing between a C++ and a Go process, with the TLC configurations that check them
on small instances and the theorems about them that TLAPS proves for every value of the constants.

    tlc -workers 2 -config RC_Faults.cfg RpcClient.tla      # one model-checking run
    tlapm RpcClientProofs.tla                               # the proofs of one module

`PROJECT.json` lists the runs, the source lines of every definition, the hazards and the findings.

## The system

Each process owns a **connection** (TCP, UDP, named pipe, standard input/output), a **message
manager** and a **parser**. The manager runs one thread, the *data flow*: it writes a first
message when the parser is a requester, then reads, cuts what it reads into sub-messages of the
length the parser asks for, hands each to `parseMessage`, and writes what `writeMessage` produces.
In C++ a parser is a subclass of the manager, in Go an object it calls. User threads talk to the
parser through a queue or a few flags. A message is a header of 4 bytes (an id or a success flag,
and a length) and a body encoded with a *data signature*.

| component | source | state | operations | hard part |
|---|---|---|---|---|
| C++ message manager | `messageManager.h` | read buffer, message, three counters, stop flag | `dataFlow`, `stopDataFlow` | framing of an arbitrary stream; a stop while reading |
| Go message manager | `messagemanager.go` | the same, with `bytes.Buffer` | `StartDataFlow*`, `dataFlow`, `StopDataFlow` | the same |
| C++ RPC client | `rpcClient.h` | four flags under a mutex, `args`, `rets`, section counter | `callSync`, `waitRPCComplete`, `writeMessage`, `parseMessage`, `stopParser` | one condition variable with three predicates; flags read without the lock |
| Go RPC client | `rpcmpleclient.go`, `rpcmplesignature.go` | `command`, `lastRemoteProc`, `commandReady`, mutex | `Call`, `SendMessage`, `ParseMessage`, `Stop` | calls that overlap; a closed channel; a lock kept on errors |
| C++ RPC server | `rpcServer.h` | procedures, section counter, serialized reply | `parseMessage`, `call`, `writeMessage` | exactly one reply per request, with the right contents |
| C++ data publisher | `dataPublisher.h` | queue under a mutex | `publish`, `waitPublishComplete`, `writeMessage`, `stopParser` | order, grouping, wakeups, what "published" means |
| Go data publisher | `datapublisher.go` | buffer pool, channel, WaitGroup | `Publish`, `WaitForPublishComplete`, `SendMessage`, `Stop` | ownership of pooled buffers; a closed channel; a WaitGroup used again while its waiters wake up |
| subscribers | `dataSubscriber.h`, `datasubscriber.go` | section counter | `parseMessage` | losing the place in the stream |
| codecs | `dataSignature.h`, `datasignature.go`, `rpcmple.h` | none | `toBinary`, `fromBinary` | sizes and offsets at their limits |
| connections | `connectionmanager/*.h` | socket, rest of a datagram | `create`, `read`, `write`, `close` | partial reads and writes, failing setup |

What makes each component correct, in one line each: a manager hands over the stream in order,
complete and once; a client gives every call its own reply and every call returns; a publisher
writes what was published, once and in order, and releases its waiters; a server answers each
request once; a subscriber stays in step with the stream; a codec reads back what it wrote.

## The modules

**SubMessageStream** is the abstract specification of a manager: a cursor in the stream of the
peer, the sub-message handed over last, and whose turn it is. `Deliver(n)` hands over the next `n`
bytes, `Answer` is the parser's answer, `End` the end of the flow.

**MessageManager** and **GoMessageManager** are the two managers, with the counters and buffers of
the code. A byte is its position in the stream, so that contents can be compared with the stream;
the parser is any parser; a read returns any piece of what has arrived. Each is shown to implement
SubMessageStream (`StreamSpec`). `flow` is the position of the data flow thread: `start` (init and
first message), `loop` (the loop condition), `read`, `copy` (the inner loop), `parse`, `reply`,
`send` (the branch without reading), `close`, `done`.

**RpcClient** composes the C++ client with its flow thread, a thread in `stopDataFlow` and a
server. `pc[c]` follows `callSync` of caller `c`, `flow` follows `writeMessage`, `parseMessage`
and the manager around them. A section under the mutex is one action; every read of `stopWait`
outside it is an action of its own; the set `waiting` is the condition variable. Replies come as a
header alone or a header and a body, and a read returns any number of them.

**GoRpcClient** is the same composition in Go. The mutex is a variable here, since an error path
keeps it; a send on the unbuffered channel is one action with the receive it meets; a send on the
closed channel sets `panicked`, which stops everything.

**DataPublisher** composes the C++ publisher with its flow thread, waiters and a stop. A message is
a publisher, a number and a size, because grouping and the size limit look at sizes.

**GoDataPublisher** composes the Go publisher with its goroutine. Buffers are identified and each
call on a buffer is an action, because buffers are put into the pool before they are reset. The
`WaitGroup` is a counter and the waiters asleep in `Wait` (`Blocked`). A `Done` that reaches zero
releases them in a step of its own, and a released waiter looks at the `WaitGroup` again when it
runs: an `Add` that comes between panics, in `Add` (`AddPanics`) or in `Wait` (`WaitPanics`), as
in Go's `sync`.

**DataSignature** and **GoDataSignature** are the codecs, as operators. A message is a sequence of
digits in base `Radix`, which stands for 65536: a length is one digit, a number two. `ToBinary`
follows the code's vector: when it grows and by how much, what it holds from the message before,
where it is written behind its end. The shapes of the code are kept (a length, then elements;
refused lengths; offsets compared with the size), its repetition for ten types is not: `PutEach`,
`GetEach` and `AddEach` are the loop over an array, of any kind of element. A value of another type
than the one asked for is refused before a `CASE` over the types, as `getVariantValue` and the
comparison with `reflect.TypeOf` do.
**SignatureTransfer** composes them: one language writes, one reads, with the same signature.
`IsCppValue` and `IsGoValue` are what a program of each language can pass, for any length.
`ValueFormat` is the reference definition both are compared with. **MCSignatureTransfer** has the
values of its runs.

**Exchange** composes both ends of a connection: an RPC client with the RPC server, or a publisher
with a subscriber, in every combination of languages that the library has, with their managers and
a network between them. It is the model of `rpcServer.h`, `dataSubscriber.h` and
`datasubscriber.go`, of the header of a message, and of `read` and `write` of the connections. A
word stands for some bytes and a header is two words, so that cuts, lengths at the limit and the
carry of a length into the id are there; the body of the k-th message repeats `k`, so that a reply
or a callback shows whose it is. One step takes a complete sub-message through `parseMessage`,
`writeMessage` and the write, since one thread does that without looking at anybody else; what is
concurrent inside a client or a publisher is the subject of the modules above. The histories
`sent`, `executed`, `results`, `returned` say what was asked, done, answered and handed over.
**MCExchange** has the procedures of its runs.

**Connections** is the life of the C++ connections of one process: `create`, the data flow's
`close`, the destructors of connection and manager, `startTCPServer` and `stopTCPServer`, with what
they share in the system, the handles that it gives out again and the count of `WSAStartup`. `way`
is how the user deletes: after `startDataFlowBlocking`, in `onCloseCallback`, or directly
(`example3.cpp:63`). A `close` is two steps, `closesocket` and what follows it.

`*Proofs` hold the theorems of the module they are named after; **MessageManagerProofs** holds those
of both managers, the Go manager as an instance over the variables that have the same meaning. Definitions called "mutant" are
plausible bugs in one definition; each shows that a property can fail.

## The runs

| run | asks | bounds |
|---|---|---|
| `MM_Frames` | C++ framing, refinement, liveness of the manager | 6 bytes, lengths 1 to 3, reads of up to 4: a read can end in, at and after a sub-message and span three |
| `GoMM_Frames` | Go framing and refinement | as `MM_Frames` |
| `GoMM_Split` (fails) | is a complete sub-message always handed over? | 4 bytes, length 2 |
| `RC_Faults` | C++ client, all faults | 3 calls of one caller (a call, one after it, one after a failed one), 1 waiter |
| `DP_Flow` | C++ publisher, all faults, grouping | 4 messages of sizes 1 and 3, groups of 2, limit 2: groups of one and two, oversized messages first or in a group |
| `GoRC_Calls` | Go client, all faults | 4 calls of one caller |
| `GoRC_Overlap` (fails) | is a call that returned true sent, when calls overlap? | 2 calls |
| `GoDP_Flow` | Go publisher, all faults | 2 messages, a channel of 1 so that it fills up, 5 buffers: at most 4 are in hands at once, the pool is never the one that blocks; 1 waiter, which with the second message meets both panics of the `WaitGroup` |
| `SG_Transfer` | codecs in all four combinations of languages | base 8; each type of signature with values of each type, alone and before another value; in Go also more and fewer values than types; lengths 0 to 9, so below, at and above the limit of 8; 8 strings that are each too long; a fresh vector and one longer than any message |
| `EX_Exchange` | client and server, publisher and subscriber, over a stream and over UDP | 2 messages (a second one meets what the first has left); headers in base 3, bodies of 0 to 4 words: empty, below, at and above the limit of 3; reads of 1 to 5 words, so inside a header, at its end and across messages; groups of one and two; datagrams of up to 6, so a group may be too large for one |
| `EX_Stdio` (fails) | are calls over the standard input answered? | as `EX_Exchange` |
| `CN_Connections` | lifetimes, handles and the count of `WSAStartup` | 2 connections of each of 4 kinds and 3 ways of deletion, a listening socket, 3 handles: each may get the one that another has closed |

Runs without deadlock checking are systems that stop when all calls are made or the flow has ended.
The managers are checked for deadlock; their `Terminated` step marks the states where the
thread has returned. `DP_Flow` has one publisher; its safety is proved for any number. `Exchange` makes no call after a
message whose length is at the limit, since what the two sides make of the rest of the stream is
arbitrary; the message itself, and a group that it is in, are there. Of the type
invariants, which are all proved, runs check the two that say more than where a variable ranges: the
words of a header keep their width, and a `WaitGroup` does not go below zero.

### What the failing runs show

- `GoMM_Split`: `readBuffer.Next(mm.messageLength)` takes up to the whole length, not what is still
  missing. After a read that ended inside a sub-message too many bytes are collected,
  `messageMissingBytes` becomes negative and the parser is never called again. `ParsedUnlessOvershot`
  in `GoMM_Frames` shows that this is the only way to miss a sub-message.
- `GoRC_Overlap`: `Call` returns true when the flow has taken the signal, not the command.
- `EX_Stdio`: `std::cin.read` returns when the whole buffer of 16777220 bytes is full, because
  the resize of the buffer to the bytes that are missing is commented out (`messageManager.h:123`).
  The server sees no request until later ones have come, and the client sends none before its reply.

Two weaknesses have no run. `callSync` gives up the lock between seeing `canCall` and clearing it;
it is for one caller at a time, which the theorems on `RpcClient` assume. The C++ branch that only
sends does not resize `message`; no parser of the library changes from 0 to a length, and
`CopySafe` proves those parsers safe.

The properties of the passing runs name further limits of the code in their exceptions:

- `Released` of `RpcClient`: a call that fails to decode notifies nobody, so a thread in
  `waitRPCComplete` may sleep on. `CallReturns` of `RpcClient`: nobody calls `stopParser` when the
  peer closes, against the comment at `messageManager.h:39-40`, so a pending call sleeps on. A call
  of a Go client has the same exception.
- `OwnReply` of `RpcClient`: a stop lets `callSync` return true with an older reply.
- `CallReturns` of `GoRpcClient`: an encoding error keeps the lock; a `ReplyCallback` that uses
  `Call` waits for the lock of its own goroutine; a stop panics.
- `SentOnceUntilStop`: a stop sends the last command again. `WaitedFor`: one write may still be to
  come. `EverybodyReturns` of `GoDataPublisher`: a stop panics.
- `EventuallyWritten`, `EverybodyReturns` of `GoDataPublisher` (`WaitDisturbed`): a `Publish` that
  counts its message between the `Done` that releases a `WaitForPublishComplete` and the moment that
  one runs makes `Add` or `Wait` panic. The process ends without a stop, and what is in the channel
  is lost. Publishing and waiting at the same time is therefore not safe.
- `IntactUnlessLate`: `Publish` and `SendMessage` put a buffer into the pool before they reset it
  (deferred calls run last first); a goroutine that gets it in between damages a message.
- `FormatExact`, `RefusedExactly`, `TransferIntact`: a length of exactly 65536 passes the check, is
  0 in 16 bits, and `std::copy` in `dataSignature.h:464` then writes the whole string behind the end
  of a vector that has not grown. `TransferIntact` also: a text that a C++ receiver makes a wide
  string of must be UTF-8, or `from_bytes` raises an exception, and hold no zero, or `c_str` cuts it.
- `ExecutedAsCalled`, `ReplyMatches`, `CallsReturn` (`AtLimit`): a body of exactly 16777216 bytes
  passes the check and is carried into the header: the id is one more, the length 0, and another
  procedure is called, without arguments.
- `ReplyMatches`: returns that `toBinary` refuses are answered with success and with bytes of the
  reply before. A procedure that fails gets no reply, the connection is closed.
- `EverythingArrives` (`Stalled`): a Go manager that has collected too much, or a Go subscriber
  whose publisher sends messages without a body, which is asked for a body of length 0 and spins.
- `ClosedByOwner`, `KeptAndReleased` (`Guilty`): a `connect`, `bind` or `listen` that fails leaves
  the closed handle behind, and it is closed again; an accepted connection loses its socket when the
  server is stopped; a connection that is deleted while its flow may run. A pipe that never had a
  flow is not closed.
- `NoDanglingUse`: deleting a manager directly is not safe, the detached thread goes on.

## Fairness

Each thread or goroutine of the library has weak fairness on its steps: it is scheduled, and a
mutex that is free is obtained. There is none on what users decide (starting a call, a publish, a
wait, a stop), none on the peer of a manager, and none on closing or failing. `FairServerSpec` adds
a server that answers every request it gets, since a call to a server that does not answer has no
reason to return. `FairSpec` of `Exchange` is weak fairness of each end's data flow: it reads what
has arrived and answers; users need not call, and the network may lose every datagram.
`Connections` has no liveness. A parser of the two managers is assumed to return from its calls; whether it does
is what the other modules are about.

## The proofs

| theorem | says | argument |
|---|---|---|
| `TypeCorrect`, `GoTypeCorrect` (every module but the codecs) | `TypeOK` is an invariant | inductive as it stands, one lemma per group of variables; for `Exchange` within `Sound`, which also ties where a data flow is to what its manager holds (a parser that waits for a header has asked for two words, C++ never collects more than was asked for), since a header's width depends on it |
| `FramingCorrect`, `GoFramingCorrect` | counters, buffer and cursor agree | `TypeOK /\ Framing` is inductive; only the copy needs work: the bytes already there are kept, the new ones follow |
| `CopySafe` | the unchecked `std::copy` stays inside `message` | from `Framing` |
| `StreamRefined`, `GoStreamRefined` | the manager implements `SubMessageStream` | with `Framing`, a parse hands over `NextBytes`, every other step is `Answer`, `End` or a stutter |
| `CallIsTracked` | until a stop, the one call is in at most one place and is the one its caller waits for | `CallTracked` with the types is inductive; it holds under every fault |
| `OwnReplyCorrect` | `callSync` returns its own reply | from `CallTracked`, and that a stop is not taken back |
| `AtMostOnceCorrect` | nothing is written to the C++ server twice, also after a stop | `Fresh`: the requests on their way or executed are distinct and older than a call that is still to be written; `CallTracked` gives up at a stop, so `Fresh` follows only the flag `sendIsReady`, which is set once per call |
| `OwnReplyCorrect` (Go) | the callback hands over the reply of its own call | `Tracked`: the call that is awaited is in exactly one of `command`, `outgoing`, the network, the server and the reply under way |
| `SentOnceCorrect` (Go) | nothing is sent twice before a stop | with `Tracked`, requests are distinct and numbered up to the call that is in `command` or `outgoing` |
| `TrueMeansSentCorrect` (Go) | what `Call` reports as sent is sent | with `Tracked`, `command` is not overwritten before it is written |
| `ConservedCorrect`, `WrittenInOrderCorrect` | what was pushed is what is written, held and queued; what is written is a prefix of it | one invariant on the four sequences |
| `NoDanglingUseCorrect` | the data flow never uses a deleted connection or manager, if its user deletes them in one of the two promised ways | `NoDanglingUse` with the order in which a manager comes and goes; a lemma reduces each step to what it does to one connection |
| `WaitedForCorrect` (C++) | what was published before a wait is written or being written when the wait returns | from conservation, and that the queue was empty or a stop had been requested |
| `WaitedForCorrect` (Go) | the same for `WaitForPublishComplete` | `Counted` and `Covered`: the `WaitGroup` counts what is about to be sent, in the channel or just received, and a waiter that it releases or lets through has seen only what is no more in the channel; the counter is still zero when waiters are released (`ReleasedAtZero`), because an `Add` before that panics |
| `BufferOwnedCorrect` | a buffer is in one place | `Owned`: `BufferOwned` with the place of each buffer as the program counters say it; a reset after a `Put` does not make it owned |
| `IntactUnlessLateCorrect` | messages reach the wire whole and in order | `Intact`: every buffer's contents follow from the step its holder is at, what lies in the channel is whole, and while no buffer was handed out before its reset (`late`), what lies in the pool and is not about to be reset is empty |
| `ExecutedAsCalledCorrect`, `ReplyMatchesCorrect` | the C++ server executes what was called, in order and once; the i-th reply is what the i-th call returned | `RpcOK`: until a length was at the limit, at most the last request (`FarRpc`) and its reply (`NearRpc`) are on their way, as a whole or without the header that was parsed; a read or a round of the inner loop keeps `Pending`, the bytes on their way, so only writes and parses have work to do; after a length at the limit, `Spoilt` says that nobody gets further |
| `SubscriberInStepCorrect` | a subscriber hands over what was published: the first messages of a stream, whole messages of datagrams | `StreamOK`: there is a number `w` of messages that were written while the connection was there, and words `f[k]` that follow the k-th of them, and what is pending is the rest of the one that is next and what follows it; `UdpOK`: each datagram is one message or two, whatever is lost, doubled or overtaken, and none is read before the one before is used up (`InDatagram`) |
| `TransferredHolds` | what was sent is what the sender's codec wrote, what was received is what the receiver's reads in it | `Transferred` is inductive; the other theorems on the codecs are drawn from it |
| `FormatExactHolds` | both languages write the format, nothing more and nothing behind the vector | along the rounds of the loops: after `k` values the vector starts with the format of the first `k`, and what it has grown by always reaches as far as what is copied next; the last `resize` cuts off the rest |
| `RefusedExactlyHolds` | exactly the values of another type or with a length above the limit are refused | a loop goes on as long as nothing was refused, so it ends well if and only if each round does |
| `TransferIntactHolds` | every value that is sent is read and says the same, in each combination of languages | `Reads`: at the offset where the format of a value starts, the reader comes to where it ends, with that value; in C++ a wide string also goes there and back through UTF-8, `FromBytes` inverts `ToBytes`; carried from field to element, array, value and message |
| `PrefixRefusedHolds` | no part of a message is taken for a whole one | the same statement about a message that ends anywhere: a reader whose bytes end too early says `incomplete` or raises the exception; it may not read on in what is not there |
| `ClosedByOwnerCorrect`, `KeptAndReleasedCorrect` | who closes what is not his has a named cause; until then every handle is held and released and Winsock counted | `Books`: holder and socket agree in both directions until somebody closes what is not his, and `wsa` is the number of sockets in use, so the `WSACleanup` that is the last takes only the sockets of accepted connections whose server is gone |

Assumptions: the named `ASSUME` of each module on its constants; `LibraryRoles` (each parser always
receives or always sends) for `CopySafe` and `StreamRefined` of the C++ manager and for the Go
manager, whose module knows no other parser; `OneCaller` for the theorems
about calls of both clients but `TypeCorrect`, without which they are false, and for those of the
Go client `AwaitReply` (the caller waits for its callback), without which `GoRC_Overlap` refutes one
of them. The theorems about the publishers and the connections have no assumption but the `ASSUME`.

`Exchange` is proved for every `Base` above 2 and every `Ids` from 2 to `Base` (2^24 and 256 in the
code: with more ids than a word has values a header would not fit its words), every set of
procedures and lengths, and any `MaxSent` below `Base`, since a word must tell one message from
another.

The codecs are proved for every `Radix` above 7 (65536 in the code), every signature, all values and
whatever the vector of `toBinary` held before. Their loops are folds over arrays and signatures of
any length. A proof cannot instantiate a theorem about induction here, nor the ones of the library
about what a fold does, so both are stated for sets: `RunsTo` says that a fold is the last of a
sequence of states, one per round, each following from the one before; `Induct` says that a set of
numbers that has 0 and with each number the next one has all of them, which follows from a set
without a least element being empty (`WFMin`). What a round keeps is the set of rounds after which
it holds. `FromBytes`, the only recursive function, is taken apart in the same way.

The proofs changed three things that the bounded runs had not shown. `PutTyped` and `AddTyped` were
a `CASE` with a last arm for a value of another type that overlapped the others; what such a `CASE`
means is open, though TLC takes the first arm, so nothing could be proved of it. `RefusedExactly`
was false for an array of exactly 65536 strings one of which is too long: C++ writes the length as
0, its loop runs over the truncated length and never looks at the strings. `Compared` says so, and
the run has that array now. And the values were only those of the run, where the theorem needs to
be told which values a program can have.

Only model-checked: liveness, with `ENABLED` in the fairness it rests on, which this prover does not
reach. The theorems cover every invariant and every refinement that the passing runs check.

## Not modelled, and the plan

Left out of the modelled parts: the contents of values outside the codecs, logging, spurious
wakeups (they only evaluate a predicate again), the reordering of memory accesses in unsynchronised
reads of a flag (a read sees the value of some moment, which the interleavings give), the addresses
of sockets, and a write that is cut short: blocking sockets and pipes write all (`namedPipeClient`
would start again from the beginning, `namedPipeClient.h:66`).

RPC over UDP is not in `Exchange`: no example uses it, and nothing in the code sends a lost request
again. A deleted object that a `direct` user takes from its flow is only said to be gone: what the
flow finds there is undefined, and no property promises anything about it.

Not modelled at all:

- spdlog, a vendored logging library: most of the lines in the repository, and nothing in
  rpcmple depends on what it does;
- the example programs, used to see in which order the library is called;
- UTF-8 in full: its model is a code of one or two digits that is ill-formed where UTF-8 is;
- byte order and the swaps of `rpcmple.h`: both languages write little-endian, word by word.

Next, in this order:

1. Proofs: the managers inside `Exchange` against `SubMessageStream`; that `Exchange` may take the
   bodies of its messages as opaque, from the theorems on the codecs.
2. The destructors of client and publisher against threads that sleep in `callSync` and
   `waitPublishComplete`.
3. `Exchange` with a stop on either side.
