# The RDP gateway, specified and checked

The repository is a gateway between browsers and guacd. A browser opens a
websocket (or, the older way, a series of HTTP requests) and gets a remote
desktop; the user who launched it can share it with others, who join the same
guacd connection through websockets of their own. The gateway keeps these
*rooms* in memory and tells a database, a cache, a recording queue and a set of
gauges about them. This directory holds TLA+ modules that model the gateway, TLC
configurations that check them on small instances, and TLAPS proofs of what
matters most for every instance.

## 1. Inventory

| Component | State | Operations | Shared with |
|---|---|---|---|
| Sharing rooms, `pkg/rdp_sharing.go` | `rdpRooms`; a room's `Users`, `Invitees`, creator, guacd connection; a client's role and rights; a package mutex and a mutex per room | `NewRdpSessionRoom`, `JoinRoom`, `LeaveRoom`, `closeRoom`, `AddInvitee`, `RemoveUser`, `StopShare`, `AuthShare`, `GetRoomByAppIdAndCreator` | every websocket handler and reader |
| Websocket handler, `pkg/ws_server.go` | the variables of `ServeHTTP`, deferred calls | set-up, stream, leave, clean-up; the reader goroutine `wsToGuacd` | rooms, stores, notifications |
| Connect callback, `cmd/guac/guac.go` | none of its own | `DemoDoConnect`: launch a session or attach to one | rooms, session data |
| Client commands, `pkg/commands.go` | none of its own | share-session, remove-share, set-permissions, stop-share and commands that only report | rooms, database |
| Stores, `pkg/mem_session.go`, `pkg/mem_session_data.go`, `pkg/metrics.go`, `pkg/db.go`, `pkg/kv.go` | connection counts, session data, gauge; session and invitee records; address entries | add, delete, get, set | handlers, rooms |
| Policy notifications, `pkg/channel_control.go` | `ChannelList`, a channel per connection, a mutex | `Add`, `Remove`, `BroadCast`, `BroadCastToWs` | handlers, `connectToAstraea` |
| HTTP tunnel, `pkg/server.go`, `pkg/tunnel_map.go`, `pkg/tunnel.go`, `pkg/counted_lock.go` | `tunnelMap` with times of last access, two counted locks per tunnel | connect, read, write; the time-out task | guacd connections |
| Stream, instructions, handshake, `pkg/stream.go`, `pkg/instruction.go`, and `guacdToWs` | an array, the slice of it that is the buffer, the place to go on parsing; the batch for the websocket | `ReadSome`, `Flush`, `Available`, `Handshake`, `String`, `Parse`; relaying | everything that talks to guacd |
| Recording worker, `pkg/recording.go`, `pkg/redis.go`, `cmd/transcoding`, `cleanExpiredRdpFiles` | queues in Redis, files under `/efs/rdp`, a counter | push, peek, encode, pop, expire | `closeRoom` |
| Mail, alert rules, kubernetes, logging, geo look-up, status codes, stress test | none that other parts depend on | | |

What is hard here is concurrency. Every websocket has two goroutines; `rdpRooms`
and `Users` are written under mutexes and read without; a decision is made
before guacd is dialled (seconds) and acted on afterwards; a panic in a handler
is recovered by net/http after its deferred calls, a panic in a reader ends the
process; database and cache calls fail and only a log line knows; everything in
memory is lost when the process ends and the database is not; workers are killed
between looking at a queue entry and removing it; guacd's bytes come in pieces of
any size and are parsed in a buffer that is moved under the parser. `PROJECT.json`
lists these hazards line by line.

What makes the gateway correct: whoever is in a room is really attached to it;
a room always has somebody who will close it, and closing it disconnects
everybody, queues the recording once and withdraws the session; commands cannot
take the session away from its host; counts match connections; links of dead
sessions open nothing; whoever disconnects gets through; no guacd connection is
lost; what guacd sends reaches the browser whole, in order and in the end; a
queued recording is handled at least once, not deleted before it is logged, and
leaves no file behind.

## 2. Modules

| Module | Models |
|---|---|
| `RdpRooms` | rooms, invitees, roles and the stores `closeRoom` and the commands write, as operators that the next two modules make actions of |
| `RdpCommands` (extends `RdpRooms`) | the reader goroutine and the four commands that change a room |
| `WsServer` (extends `RdpCommands`) | the life of a connection, `ServeHTTP` with `AuthShare` and `DemoDoConnect`; crashes; the properties of rooms |
| `ChannelControl` | policy notifications |
| `HttpTunnel` | HTTP requests, the map of tunnels, the time-out task, the counted locks |
| `SessionLife` | abstract: what the gateway promises of a session; `WsServer` implements it |
| `Instruction` | the wire format: `String` and `Parse` as operators on bytes |
| `GuacdStream` (extends `Instruction`) | the connection to guacd: buffer, `ReadSome`, handshake, `guacdToWs` |
| `Recording` | hand-over of recordings, queues, workers, files |
| `JobQueue` | abstract: what a queue with at-least-once handling promises; `Recording` implements it |
| `RoomWrites` | the mutexes and the websocket writes of one room, when clients stop reading |
| `MCWsServer`, `MCRoomWrites`, `MCChannelControl`, `MCGuacdStream` | instances for TLC |
| `WsServerProofs`, `SessionProofs`, `RoomProofs`, `RoomWritesProofs`, `ChannelControlProofs`, `HttpTunnelProofs`, `RecordingProofs`, `GuacdStreamProofs` | proofs |

Names ending in `_Something` in a section headed *Mutants* are slips of the
definition they are named after; each property is violated when the slip takes
the definition's place.

### Rooms, commands and handlers

*Names.* A connection is a member of `Conn`. A session's id is the tunnel uuid
of the connection that launched it, so sessions and rooms are members of `Conn`
as well, and so are guacd connections and the client objects (`RdpClient`) rooms
hold. `userId` gives the user behind each connection. One appId and one tenant
are modelled: rooms of different applications never meet in
`GetRoomByAppIdAndCreator`.

*Data.* A permission string is only searched with `strings.Contains`; it is the
set of words it holds. Session data is only ever present or missing. What is
relayed between browser and guacd, the member lists and the permission messages
are left out.

*Control.* `pc[c]` is the place of the handler of connection `c`:

| Place | Code |
|---|---|
| `idle` | no request yet; `ArriveHost`, `ArriveShare`, `ArriveRefused` are the start of `ServeHTTP` with the first half of `AuthShare` |
| `authRoom` | `AuthShare`, the look at the room |
| `connect`, `attach`, `dial` | `DemoDoConnect`: its own look-up, launch or attach, dial and handshake |
| `newRoom`, `join` | `ServeHTTP` after the tunnel is there |
| `stream` | `guacdToWs` |
| `scan`, `close` | inside `LeaveRoom`, with the package mutex |
| `cleanup`, `abort` | the deferred calls, with and without the gauge |
| `done` | the handler has returned |

A step is a critical section under the package mutex, a section under a room's
mutex, an unlocked read or write, or a call to a store. Sections under a room's
mutex (`join`, `leave`, `RemoveUser`, `StopShare`) are single steps, because all
writers of `Users` hold that mutex and unlocked readers see either value of the
single entries they look at. `closeRoom` is one step too, although it withdraws
the session in four (the room, the session data, the database record, the cache
entry; `rdp_sharing.go` 353-356): between them the room is already gone, and every
reader that could look in asks for the room as well. `Attach` needs the room and the
data; a command that finds the data still needs the room, and share-session, which
looks for it last, waits in `AddInvitee` for the package mutex that `closeRoom` holds
and then finds none; a guest that finds the data (`ConnectedGuest`) fails in
`JoinRoom` either way. A kill inside `closeRoom` has the effect of one before it, but
that the record and the address may already be withdrawn. What is lost is the window
itself: other processes can see the record or the address of a room that is gone for
the length of two calls, of which `AnnouncedWhileOpen` says nothing. `LeaveRoom` is three steps (`Leave`, `LeaveScan`, `LeaveClose`), since
its scan races with commands. A command is accepted by `Receive`, which makes its
unlocked checks, and then goes through its writes one by one: `Share` then
`ShareRdpSession`, `Remove` then `RemoveInvitee`, `SetClient` then `SetInvitee`
then `ShareRdpSession`, `Stop`.

*Failures.* With `StoreFails` any database or cache call may fail on its own.
`ConnectError` is a dial or a handshake that fails. `SessionPanic` is the nil
dereference of a handler without session data, recovered by net/http: the
deferred calls run and `LeaveRoom` does not. `StopCrash` is the nil dereference
of `StopShare` in a reader, which ends the process. `Crash` is a kill, or the
runtime's reaction to a concurrent map access, at any point, at most
`MaxCrashes` times. After either, memory is empty and the stores are as they
were. `queued` counts hand-overs to `PushToQueue`; whether recording is enabled
and what Redis does with it lies behind that call.

*The abstract session.* `SessionLife` knows sessions that are not there, open or
closed, who is in them, and how often their recording was handed over. The
mapping (`Life` in `WsServer`): a session is open while its room is registered,
closed once its recording is queued; the users in it are the members of the
registered room. Opening, joining, leaving (one user by remove-share, several by
stop-share), closing and restarting are its only steps; every other step of the
gateway is a stutter.

### Who waits for whom

`WsServer` takes a section under a room's mutex as one step and leaves out what is
written to the members. `RoomWrites` is the other half: one room, a connection for
each user, and every place where a goroutine waits: for the package mutex
(`lockJoin`, `lockLeave`, `share`), for the room's (`join`, `leave`, `invite`,
`stop`, the end of `notify`), and for a websocket in the loops that write to the
members (`joinList`, `leaveList`, `list`, `stopList`), to the one that joined
(`permission`), was removed (`notify`), sent a command (`answer`) or watches
(`relay`). A write takes the mutex of its websocket and ends when the client
reads or the websocket is closed; `Visit` picks the next member and takes the
mutex when it is free, `LockMux` when it was not. A loop over `Users` does not
come to members removed meanwhile, and may or may not come to new ones.
`StopCrash` is the end of the process. A command names one user. The constants say
who has joined at the start (`Present`), what each client sends (`Command`) and
what befalls its connection (`Fate`): guacd draws on it, the client stops reading,
goes away, guacd ends the stream.

Left out: what the messages say; the roles (whether `LeaveRoom` meets an admin and
whether a command is refused is a free choice, which covers every role
`set-permissions` can give); `NewRdpSessionRoom`, which holds the package mutex for
a moment and waits for nothing else; `BroadCastToWs`, whose goroutine holds no
mutex but the websocket's, as the relay does (what waits for it is in
`ChannelControl`).

### The connection to guacd

A byte is a number: a digit, one of the three separators, the first or a later
byte of a three-byte character, or a letter; opcodes are one letter long. guacd
sends one of `Streams`, sequences of encoded instructions, of which the last may
be `Garbage`. `array` is the memory `NewStream` makes, `off` and `len` describe
the slice `Stream.buffer`, whose capacity shrinks as instructions are taken off
its front; an instruction that was returned is a slice of the same array (`ins`)
and is read through it. The parse loop is one step per element (`Element` is one
round of it); between a parse that finds too little and the read come the test
for `Flush` and the move. `Receive` reads any number of bytes that fit. `phase`
follows `Handshake` and `guacdToWs`. `Parse` follows the loop of the code: where
the elements start is a function of their number, each found from the one before.
`ReadFails` and `WriteFails` are errors and
time-outs of the two connections; a panic of the parser is `ParseFails`, since
net/http recovers it and the session ends as with an error.

### Recordings

`session[r]` says whether the session of a recording is open, was handed over or
was not (Redis refused, or the gateway was killed). The worker of a queue has a
place per call of `EncodeRecording` and `Encode`; a video file is absent, whole,
broken off, or left from an earlier visit. `guacenc` and `ffmpeg` do what the
code tells apart: exit with an error, report no success, write a whole or a
broken video or none, report an empty one; `guacenc` needs the recording, and
neither overwrites a file. A worker killed while one of them runs leaves a part of
the output. `Expire` may take the recording of a session that is over at any time
(a queue may be more than a day behind), other files when nobody works on them.
`verdict` collects how the visits to a recording came out; a visit whose log entry
was written counts as settled although the error of the upload before it is
dropped by the code. Every recording has a file of its own: its name is the user and
the second the session began, and sessions that share both are left out
(section 5). What `Expire` does is what the call `utils.CleanExpiredFiles(..., 24h)`
(`guac.go` 324) is named for; the function is not in the repository.

### Policy notifications

`ChannelControl` has a place per connection (`start`, `addApp`, `serve`,
`remove`, `gone`), the lists, the mutex `mu`, the channel buffers with capacity 1,
the websocket and the goroutine that serves a channel, which writes the policy once
when it starts and again after every notification (`BroadCastPolicy`; nothing is
written for a user without a policy). `BroadCast` holds `mu` from its first to its
last send, each send being a step that waits while the channel is full. A write has no
deadline: it ends (`Written`) when the client reads or the websocket is closed, by
the client or by the last deferred call (`CloseConn`). `Peer` is a client that stops
reading, reads on or goes away. The policy query before the write is taken to return.

### HTTP tunnel

`HttpTunnel` has a place per request, the map, the age of every registered
tunnel, the time-out task and, per tunnel, the count and the mutex of the
reader's and of the writer's `CountedLock`. `Get` and `Access` are two steps
(the map is released in between), `Lock` and `Unlock` two each (the count and
the mutex), `Scan` and `Sweep` two (read lock, write lock). A request may fail
at every place the code handles a failure. Errors that are not an `ErrGuac` make
`doRead` or `ServeHTTP` panic on a type assertion; the deferred release of the
lock still runs, so these paths differ from the others only in what they did to
the tunnel before, which the actions spell out; so does a panic of `ReadSome`. The
task is taken to be prompt: time does not pass between a tick and the end of the
task it starts.

## 3. Runs

| Run | Instance | Shows |
|---|---|---|
| `reconnect` | the host visits twice, a guest once; share, remove, stop | members, handlers and stores stay consistent in every order of launch, share, cut-off and return, no room is closed with its host in it, and the gateway implements `SessionLife` |
| `permissions` | a host, and a guest who visits twice, one after the other or both at once; all commands, naming guest and host, the guest made co-host, the host viewer | the room closes with its members, the host stays invited, only the host stops, whoever watches stays on the list where commands and closing find it |
| `restart` | host twice, guest once, a crash at any point, failing stores, more invitations than places | old links open nothing, recordings are queued once, counts match connections, the limit holds |
| `room_writes` | a host with every command and a guest; either stops reading, goes away or is cut off; fair | no circle of goroutines waiting for mutexes; while clients read on, handlers with closed websockets finish and abandoned rooms close |
| `stalled` | a host that sends stop-share, a guest that is watching and one that joins, both of whom stop reading and leave; fair | stop-share gets joins and leaves through that a guest holds up |
| `channels` | two users of an application, whose clients stop reading; notifications of the application; fair | no send on a closed channel, nothing left in the lists; notifications of a client that reads are served, goroutines end, and while clients read on everyone who leaves gets through |
| `http_tunnel` | three requests on up to two tunnels, fair | readers hand over to readers, no tunnel lost, closed ones rejected, everything ends |
| `stream` | seven streams of guacd, one longer than the buffer, two that break, three handshakes that fail; `MaxGuacMessage` 16, fair | instructions come out whole, in order and once however the bytes arrive; a read always has room; everything is relayed |
| `recording` | two recorded sessions and one that is not, one queue, one kill of each process, fair | the worker implements `JobQueue`; no leftover is uploaded, nothing deleted unlogged, no file stays |
| `lost_session_data`, `channels_blocked`, `split_rune` | the smallest instance with the case | disagreements between the code and what it says of itself, section 5 |

*Bounds and why they suffice.* Races need two visits of one user and one visit of
another (to keep the room or be invited): three connections and two users. The host
visits twice in `reconnect` and `restart` (it comes back to its room, or launches
another while the first closes), the guest in `permissions` (also twice into the same
room at once). Every connection runs through the whole handler once. In `permissions`
the guest's commands come from one of its two connections, which may be the
earlier or the later one; with commands from both the instance is four times as
large. `MembersAttached` and `NoOrphanRoom` are run with the host's two visits; that
they survive the guest's double join is proved. `InviteeLimit` is 2 in
place of 4: the limit is met, hit and passed with three users. A crash
is modelled once: after it nothing but the stores differs from the start.
`RoomWrites` has two clients in `room_writes`, so that a handler and a reader of each,
four goroutines, meet at three kinds of mutexes (that more of them make no circle is
proved), and three in `stalled`: a guest can hold up the leave of another guest,
and the host is still there to send stop-share.
`HttpTunnel` needs a connect, a reader and a second reader (or a writer) on the
same tunnel; two time units per time-out tell "at", "before" and "after" apart.
`MaxGuacMessage` is 16 in place of 8192, which leaves room for an instruction of
exactly that length with a two-digit length in it; the longest session is more
than twice the buffer, so that the buffer is moved at every place of an
instruction. One queue is the default of the code; workers of different queues
meet in nothing as long as no two recordings share a name. Two entries make a queue
in which the head matters, and one kill at any step leaves every mixture of files a
second visit can meet.

*Symmetry.* In `reconnect` and `restart` the two connections of the host may be
exchanged: `userId`, `Hosts` and all properties are invariant under it. The runs
with liveness properties use none.

*Deadlock* is checked in all passing runs. `Quiet` is the gateway without
clients.

*Fairness.* No liveness is claimed of `WsServer`, whose steps leave out the writes to
the members: `LeaveRoom` writes with the package mutex in hand and no deadline, so how
it ends is a question for `RoomWrites`. There handlers and readers are strongly fair:
they wait for Go mutexes, and a client that reads again and again takes what is
written to it. A handler whose websocket is closed leaves `guacdToWs`, because every
read of guacd is bounded by `SocketTimeout` and the next write fails. That a client
reads is never assumed; where a property needs it, it says so (`ReadsAgain`):
`StopShareFrees` of the host, `ClosedHandlersFinish` and `AbandonedRoomCloses` of all
members. The last two also exclude the end of the process by `StopCrash`. In
`ChannelControl`, `Remove` and the second `Add` are strongly fair: Go's mutex
hands itself to a goroutine that has waited for more than a millisecond; a write is
strongly fair in the sense above. `NotificationServed` needs that the client notified
reads again and again, `DisconnectReported` that all do, `ServerEnds` nothing. In
`HttpTunnel` the ticker ticks and requests go on: reads of guacd end by
`SocketTimeout`, reads and writes of the client by the `ReadTimeout` and
`WriteTimeout` of the `http.Server`. In `GuacdStream` the handler goes on and what
guacd has sent arrives. In `Recording` workers run, Redis does not refuse every
pop (`SF`: the worker tries again each time round), and the ticker of
`cleanExpiredRdpFiles` ticks. A kill is never fair.

## 4. Proofs

All theorems hold for every set of users, connections, commands, requests and
tunnels, every limit, every number of crashes, every time-out and every size of
the buffer. The only assumptions are the `ASSUME`s of the modules (constants have
their types, `None` is none of the others, `Request` is finite, the time-out is
positive) and the hypotheses named below of two theorems about rooms and of those
about the stream. Every invariant and every action property of the passing runs is
stated by a theorem.

*Sessions* (`SessionProofs`, with `TypeCorrect` of `WsServerProofs`). The
invariant `SessionInv` adds to the properties what they rest on: a registered
room has a creator and a handler opens its room once (`KnownRooms`); a handler
that shares has seen the room (`ShareDecided`); session data does not appear
behind a handler's back and stays until the room is closed (`DataRead`,
`DataStays`); the holder of the mutex is in `LeaveRoom` of a
room that is still registered (`LockInv`); a recording is queued only when the
room is closed (`QueuedOnce`). From it follow `SharesSeenRooms`,
`MembersStayAttached`, `NoRoomIsOrphaned` and `RecordsOnce`. `MembersAttached`
alone is not inductive: a member whose handler is about to leave must be known to
work for the room it will leave, and the session data must still be there, or
the handler would panic and never leave.

The same invariant shows that the gateway implements `SessionLife`
(`KeepsSessionLife`). Each action is matched with the abstract step it makes:
opening a room with `Open`, `JoinRoom` with `Enter`, leaving, remove-share and
stop-share with `Go`, `closeRoom` with `Close`, the end of the process with
`Restart`; all others leave the mapped state alone. That a close happens once per
session and that nobody joins a closed one rests on `QueuedOnce` and `KnownRooms`.

*Counts* (`WsServerProofs`). `GaugesStayExact`: the invariant `GaugesInv` says that
what is counted for a guacd connection is the set of handlers between dial and
clean-up that use it, that this set is finite although `Conn` need not be (only
finitely many have come), and that a handler counts the tunnel it was given to the
end, so that the deferred calls of every early return and of a recovered panic
discount what was counted.

*Rooms* (`RoomProofs`). `RoomInv` adds that only opened rooms have members, whose
handlers have started (`MembersKnown`), that what remove-share and stop-share
were accepted for still holds when they act (`CommandsChecked`), and that only
the creator's connections have the role admin (`AdminIsHost`). From it follow
`ClosingDisconnects`, `CreatorStaysInvited`, `OnlyTheHostStops`, with `LockInv`
`ClosesWithoutHost`, and the action property `WatchersStayListed`: remove-share,
stop-share and `closeRoom` close what they take off the list, and nothing else
takes a connection off but a second one of the same user. Two more have a hypothesis, and fail without it:
`AnnouncesOpenRooms` that the stores answer (`StoreFails = FALSE`; the code logs
the failure of a store and goes on), and `StaysWithinLimit` that set-permissions
is not among the commands (its unlocked write is the entry of section 5 about
`INVITEE_LIMIT`). The second needs that the set of invitees of a room is finite and
that the test and the insertion of `AddInvitee` are in one critical section.

*Waiting* (`RoomWritesProofs`). The mutexes are taken in the order package, room,
websocket. `HeldInv` says where the holder of each can be, in particular that who
holds a websocket's mutex is writing to it and that a reader does nothing before
its handler has joined; hence a holder waits only for later mutexes, a chain of
waiting goroutines has at most three links, and there is no circle
(`NobodyDeadlocks`). `NoCircle` alone is not inductive: it says nothing of a
goroutine that holds two mutexes and is about to wait.

*Recordings* (`RecordingProofs`). `RecordingInv` adds to `JobIsHead` that a recording
is in one place of one queue and was handed over (`OneEntry`), so that no two
workers touch the same files; what a worker has made and said at each place of its
visit (`VisitOf`); and that only what was handed over was visited (`HandledInv`).
From it follow `PopsWhatItPeeked`, `UploadsItsOwn`, the action property
`DeletesOnlyLogged`, and `ImplementsJobQueue`, the safety part of the refinement:
a push is a `Submit` because a recording is pushed once, a verdict is a `Handle` of
an entry that is still there, a pop is a `Retire` of an entry that was handled, and
every other step changes neither set. The run has one queue; the proof has any
number.

*Notifications* (`ChannelControlProofs`): `NeverSendsOnClosed`, `ListsTheServed`.
The invariant `ChannelInv` contains the types, as do `HttpInv` and those of the
other modules: where types are proved no run repeats them.

*HTTP tunnel* (`HttpTunnelProofs`). `HttpInv` says that a count is the number of
requests between counting and uncounting, that who reads or writes holds the
mutex, that the tunnel of a connect request is known to it alone, and how old a
tunnel can be at each phase of the time-out task. `HandsOver` needs the first
two together: since `Unlock` uncounts before it releases, everyone who is
counted but the holder is waiting. `LosesNoTunnel`, `RejectsClosed` and
`ExpiryBounded` follow too.

*The stream* (`GuacdStreamProofs`). Here the data is what matters, so the proofs
begin with what the operators compute: the number written with some digits,
where so many characters end, what `FlattenSeq` joins, each by induction on the
natural numbers. On these rest what one round of the parse loop finds (`Found`):
in an instruction of which only a start has arrived it finds the next element or
asks for more, and in what is no instruction it never finds an end. The
invariant `ReadInv` then says that the bytes returned are so many whole
instructions (`Consumed`), that the buffer holds what arrived behind them
(`WindowMatches`), that `parseStart` is in front of an element of the next
(`Placed`), and that a slice which was returned is still its instruction when the
caller looks at it (`TakenExact`), although the buffer is a later slice of the same
array. `WholeInstructions` alone is not inductive: it says nothing of where the
loop goes on after a read. `RelayInv` adds how many instructions each phase has
taken, `HandInv` what the handshake kept of them. From these follow
`StreamTypeCorrect`, `BufferMatches`, `ReturnsWhole`, `ReadsWithRoom`,
`RelaysInOrder` and, with the lemma that `Parse` undoes `String` (`ParseWritten`),
`TakesItsAnswers`.

Their hypothesis is `PlainStreams`: what guacd sends are instructions, except a last
piece that may be garbage, their characters have one byte, and none is longer
than `MaxGuacMessage`. The first two bounds are where the code is right: `split_rune`
(section 5) is what multi-byte characters do, and an instruction longer than the
buffer makes `ReadSome` read into an empty slice. `IsInstruction` says what an
instruction is without the parser: there is a set of places, closed under "behind the
comma of the element that starts here", from each of which an element leads to a
comma or to the semicolon at the end. `NoInstruction` says that from no such place
an element leads to a semicolon. `TakesItsAnswers` also assumes `PlainGreetings`: if
the first two pieces are instructions they are written as `String` writes them (no
leading zeros, elements of less than 100 bytes, which is what `Decimal` covers), and
`ready` has one argument. TLC evaluates both on the streams of its runs
(`SessionsPlain` of `MCGuacdStream`), so the hypotheses are met by every instance
that the properties are checked on.

*Only model-checked*: the liveness properties `ClosedHandlersFinish`,
`AbandonedRoomCloses`, `StopShareFrees`, `NotificationServed`, `ServerEnds`,
`DisconnectReported`, `TunnelsClose`, `RequestsEnd`, `AllRelayed`, `FilesReclaimed`
and the liveness in `AtLeastOnce`: the prover has no fairness and no `ENABLED`. Three
limits of the prover shaped the rest. The induction theorems of the library take
an operator, which the provers cannot instantiate; `Induction` in `GuacdStreamProofs`
is stated for a set instead, and follows from the well-foundedness of `<`. It
does not look into `SelectSeq`, so `RelayedInOrder` joins what is passed on of each
instruction. And what a lemma needs of a whole function is wrapped in an
operator, without which the lemma is not found.

## 5. Where code and words disagree

* `lost_session_data`: `ServeHTTP` and `DemoDoConnect` ask separately whether the
  host comes back to a room. If the host's other connection leaves in between,
  one attaches and the other opens a new room, without session data. Its
  handler panics, never leaves, and the room stays in `rdpRooms`.
* `channels_blocked`: two notifications for a user between the two `Add`s of one
  of its connections block `BroadCast` with the mutex, for good.
* `split_rune`: `ReadSome` adds a number of characters to an index of bytes. When
  an element with multi-byte characters arrives in two pieces it can take the
  first for all of it and reads behind the buffer, or takes a byte of a character
  for the terminator; either ends the session.

Seen while modelling, and not runs of their own:

* stop-share of a host whose connection leaves the room after the command was
  accepted writes through a nil client (`rdp_sharing.go` 232) in the reader
  goroutine, which nobody recovers, and ends the process: `StopCrash` of `WsServer`
  and of `RoomWrites`.
* remove-share writes to the user it removes before it closes the websocket
  (`commands.go` 236): a user that has stopped reading cannot be removed by it, only
  by stop-share.
* A host with a room left behind who follows a link to another session joins that
  room but streams the guacd connection of its own (`guac.go` 194 overrides the
  query, `ServeHTTP` does not).
* Two connections of a user that arrive together both pass "user already join
  this session" (`rdp_sharing.go` 153): `AuthShare` looks, `JoinRoom` does not. The
  later one takes the earlier one's place in `Users`; when the earlier one leaves,
  `leave` (`rdp_sharing.go` 183) deletes the user, that is, the later one. From then on
  it watches unlisted: remove-share, stop-share and `closeRoom` do not close it.
  `StreamsListed` names this as the only way to come to that.
* No write to a websocket has a deadline (`types.go` 22-26). A member that stops
  reading holds up `JoinRoom` and `LeaveRoom` of its room with the package mutex, hence
  every session (`RoomWrites`), until it is closed. It also holds up its
  `BroadCastToWs`; at the second notification after that `BroadCast` waits for it with
  `mu`, and with it every `Add` and `Remove`, and so the clean-up, of every connection.
* `ws_server.go` 318 says "if the buffer has more data in it or we've reached the max
  buffer size, send the data and reset"; the condition below it sends when the buffer
  has *no* more data (`!guacd.Available()`) or the batch is full. The code is modelled;
  the words are the mutant of `AllRelayed`.
* The time-out task of the HTTP tunnels closes a tunnel that was used after its
  scan (`tunnel_map.go` 107), earlier than line 46 says.
* set-permissions writes `Invitees` without a mutex after a look-up. When the
  invitee is removed and another invited in between, the room has more invitees
  than `INVITEE_LIMIT`.
* share-session writes the room first and the database later; remove-share in
  between leaves the database record, and the removed user can come back.
* `String` counts bytes and `Parse` characters: an argument of the handshake with
  multi-byte characters is announced as longer than it is.
* `guacdToWs` goes on after an instruction it keeps without looking whether the
  buffer is drained; what it has collected waits for the next instruction
  (`AllRelayed` says how long).
* The errors of `ffmpeg` and of the upload are dropped: a broken or a missing video
  is logged and the recording deleted.
* A recording's name is the user and the second it began: two sessions begun by a
  user in one second share a name.
* Queues are named after the deployed version; what an old version leaves in them
  is taken only by a worker of that version.
* When the handshake fails the connection to guacd is not closed.
* The `/sessions/` handler never advances its index and reports one entry.

`MembersAttached` and `NoOrphanRoom` are therefore stated for rooms whose session
data is there; the first finding is the only way to a room without.

## 6. What is not modelled, and the plan

Not modelled: the filter on mouse, key and size instructions (it reads the role
and the rights of `RdpRooms` and changes nothing); commands that only report (DLP,
logs, user search); what member lists and permission messages say; mail, alert
rules, kubernetes, logging, geo look-up; the stress test. Outside the prover's
reach is liveness.

In order, next:

1. What the liveness properties rest on and the prover can show: that a goroutine of
   `RoomWrites` that waits has a holder in front of it which can take a step or is
   writing to a client that does not read; the same for requests of the HTTP tunnel.
2. `ReadSome` with multi-byte characters when every instruction arrives whole.
