# glot_protocols in TLA+

glot_protocols is a gateway for GPS trackers, written in Go. One process opens a TCP port per
protocol (Teltonika, Ruptela, Neomatica, GalileoSky, Navtelecom, Arnavi, EGTS, BCE), decodes what
the trackers send, acknowledges it, and stores every record in MongoDB and publishes recent ones
through Redis. This directory holds TLA+ models of it, what TLC checks about them on small
instances, and what TLAPS proves about them for all instances.

    tlc -config ServerLife.cfg MCServer      a run: section 3 pairs modules and configurations
    tlapm ServerProofs.tla                   the proofs of a module

Contents: [1 The system](#1-the-system), [2 The modules](#2-the-modules),
[3 The runs](#3-the-runs), [4 Bounds](#4-bounds-and-why-they-are-enough),
[5 Fairness](#5-fairness), [6 What is proved](#6-what-is-proved),
[7 Only model-checked](#7-what-is-only-model-checked), [8 Not modelled](#8-what-is-not-modelled),
[9 What the models showed](#9-what-the-models-showed), [10 Plan](#10-plan).


## 1 The system

### Components

| component | source | state | operations |
|---|---|---|---|
| main | `main.go` | the list of started servers; where the log goes | read `config.json`; `NewServer` and `Start` for each protocol that is enabled and known; wait for SIGINT or SIGTERM; `stopServers` |
| Server | `server.go` | listener, `ch` (closed by `Stop`), `waitGroup`, the clients of the three stores, the log file | `NewServer`, `Start`, `Serve` (accept loop), `Stop` |
| HandleRequest | `server.go` | per connection: read buffer, timeouts in a row, imei and bits of the session | read a message; `handle` of the protocol; look up the unit; `SaveRecords` |
| decoders | one file per protocol | none of their own but `packetId` of EGTS: `handle(readbuff, conn, imei, bits)` gets the session and returns it | parse a buffer, write replies to the device, return records |
| reading | `server.go` (160-214) | the buffer `buf`, the length of `readbuff`, the timeouts in a row | read until a read leaves room; double the buffer; count timeouts |
| delivery end to end | `server.go`, seen over connections and restarts | what was answered, held, stored and lost, of which nothing is kept on disk | answer, look up, insert; crash, stop, start |
| utilities | `utils.go` | none | `readValue`, `BitUtil`, `Bitset`, checksums |
| stores | external | `main_unit` (PostgreSQL), a collection per unit (MongoDB), the channel `realtime` (Redis) | select, insert, publish |

### How they interact

* Per server one goroutine runs `Serve` and one per connection runs `HandleRequest`. They share
  `ch`, on which nobody sends and which `Stop` closes; `waitGroup`, which counts them; and the
  clients of the stores.
* `HandleRequest` reads until a read comes back shorter than the buffer, gives what it has read to
  `handle`, and takes over the imei and the bits that `handle` returns. TCP is a stream: what it
  gives to `handle` may be a piece of a message or several of them. There is no framing anywhere.
* `handle` writes the acknowledgement to the connection itself, **before** the unit is looked up
  (`server.go:229`) and the records are inserted (`server.go:254`).
* `main` stops the servers one after the other. `Stop` closes the log file, Redis, PostgreSQL and
  MongoDB, **then** closes `ch`, then waits for the goroutines (`server.go:285-295`).
* The process shares one fate: `log.Fatal` in `NewServer` or `Start` and a panic in any goroutine
  end all servers.

### What is hard, and what should hold

* **Stopping against accepting and handling.** `Serve` may still accept and `Add` while `Stop`
  waits; a handler in a read hears of the stop at its deadline only. A `Stop` that returns should
  leave nothing running, and should return.
* **Acknowledged but not stored.** Between the reply and the last insertion there are a lookup
  that may fail, insertions whose errors are ignored, panics, and clients that `Stop` has closed.
  What is lost should be bounded, nothing stored twice or out of order, or under another's id.
* **Several connections of one device, and restarts.** A device that hears nothing sends its packet
  again over another connection while the handler of the old one goes on. Over all of them, and over
  crashes and restarts, what it was told is safe should be stored or accounted for.
* **State that outlives its reading.** The unit's id during a batch while `main_unit` is edited;
  the imei of a session that may change with every message; the fields a Navtelecom session has
  agreed upon; maps of params that the records of a packet share.
* **Streams.** Pieces of messages and several messages at once reach the decoders. An
  acknowledged packet should be saved as sent, and nothing but packets saved. A read that fills the
  buffer is not told from a message that goes on.
* **One counter for all handlers.** `packetId` of EGTS is incremented without a lock.
* **One of several failing.** One protocol of the configuration, one server's `Listen`, one
  insertion, one goroutine: what becomes of the others.

`PROJECT.json` lists these under "hazards", each at its line, with the properties that cover it.


## 2 The modules

    Drain <------- Server <--- MCServer, ServerProofs, ServerDataProofs   what Stop promises, and how it keeps it
      ^
      +----------- Main <----- MCMain, MainProofs              the process: all servers, by their promise

    Delivery <---- Gateway <-- GatewayProofs                   a device, its connections, crashes and restarts

                   Reader <--- ReaderProofs                    one connection in bytes: the growing buffer

    Wire <-- Teltonika, Ruptela, Neomatica, Galileosky, Navtelecom, Arnavi    decoders, as functions
               each with its device in MCTeltonika, MCRuptela, ...
    Link <-------- MCDecoders, LinkProofs                      a tracker and a connection; all decoders in MCDecoders
    LinkProofs, Ruptela <-- RuptelaProofs                      delivery through one decoder, for every packet

    Wire <-- Egts <--- MCEgts                                  one more decoder, as functions; its packets
    EgtsContract <---- EgtsServer <--- MCEgtsServer, EgtsProofs   two handlers that share its counter

An arrow points to what a module extends, instantiates or implements. The system is cut where the code
cuts it, at `handle`. `Server` leaves open what `handle` does, so that what holds of it holds for all
eight protocols; `Link` fixes the rest of `HandleRequest` to one path (all queries succeed) and plugs
a protocol in. `Reader` looks into the one step of `Server` that gathers a message, and `Gateway`
takes a message and its batch for one thing and looks at many connections and lives of the process.

**Server.** One protocol server. A step is a statement, or a run of statements without shared
state. `serve`, `pc[c]` and `stop` are the program points of `Serve`, of the handler of connection
`c` and of `Stop`:

| action | code |
|---|---|
| `ServeSelect`, `AcceptTimeout`, `Accept`, `AcceptError`, `ServeReturn` | `Serve`: the `select`, the three outcomes of `AcceptTCP` (a failed one falls through to `Add` and `go` with a nil connection), the deferred `Done` |
| `Select`, `ReadTimeout`, `ReadError`, `ReadData` | the two loops of `HandleRequest`, the idle counter `i`, the buffer that doubles while reads fill it |
| `Handle`, `HandleSpins` | `handle` returns any imei and any number of records, or never |
| `LookupFinds`, `LookupFails` | the query of `main_unit`; when it fails the records are dropped and the session ends |
| `Insert`, `Publish` | one record of `SaveRecords`: `InsertOne`, whose error is ignored; `Publish`, for recent records only |
| `Done`, `Close` | the deferred calls, last in first out: the counter falls before the connection is closed |
| `Panic` | a decoder, an entry for a nil map (`server.go:267`), a method of a nil connection |
| `Signal`, `CloseClient`, `CloseChannel`, `Wait` | `Stop`, in its order |
| `EditUnits` | the owner of `main_unit` moves or removes a device |

`decoded`, `dropped` and `missed` are history variables; `coll` and `feed` are the stores. Left
out of a step: the contents of messages and records, the logging, sizes of buffers (see Reader). A
query in flight when its client is closed is awaited by `Close`, so it is one step before or after it.

**Drain.** The abstract server: connections become active and end; after a request to stop it
stops accepting, and returns when nothing is active; a crash at any moment. `Server` implements it
(`Drains`), with `active` the handlers that have not run `Done`.

**Main.** The process: `Configure` reads `config.json`; the loop over it with `continue` for disabled
and unknown protocols and `log.Fatal` for stores and ports; `Notify`, the receive from the channel,
which has no buffer, so that a `Signal` is lost on it unless main is receiving; `stopServers`. A
server is here what `Drain` says of it, and its decoders may `Hang`. `listens` are the ports: since
the error of `ResolveTCPAddr` is ignored (`server.go:122`), a protocol whose port is empty, 0 or no
port gets one of the system's choice (`Choices`), which another may be configured for. `file` and
`out` are the log: `NewServer` points the log of the process to its own file, and every `Stop` closes
a file.

**Gateway.** One device with packets 1, 2, ...; its connections, each with a handler; the process.
`wire`, `back` and `held` are a packet sent, an answer on its way, and a packet that is answered and
being saved. `Answer` is `handle` with its write (`server.go:216`), `LookupFails` the return at
line 232, `InsertFails` the ignored error at 254, `Store` the insertion; `Stop` and `Stopped` are
the two ends of `Stop`, between which every query fails; `Crash` is a panic in any goroutine, or a
kill; `Start` starts the process again. `lost` is what some handler held and did not store.

**Delivery.** The abstract promise: a packet is taken by a connection, at most one at a time; from
there it is stored once or lost; and one is acknowledged only if it is in hand, stored or lost.
`Gateway` implements it (`Delivers`) with `next`, `held`, `stored` and `lost` as they are.

**Reader.** The two loops of `HandleRequest` around `conn.Read`, in numbers of bytes: `sent`,
`arrived`, `taken` and `handled` are positions in the stream of one connection, `room` is
`len(readbuff)`, `i` the timeouts in a row, `ends` where messages end. `ReadFills` doubles the
buffer, `ReadAll` is a read that leaves room, `Timeout` and `ReadEnds` the errors, `Outer` and
`Inner` the two looks at `ch`. The device ends the connection after a message (`HangUp`), or it is
reset at any time (`Reset`), with a part of a message still on its way or not read.

**Wire.** `bytes.Buffer` and `binary.Read`. A buffer is a sequence of fields, each with its width
in bytes and its value. A field that is cut reads as zero, as a short `binary.Read` leaves its
variable; the number of bytes of everything is exact. `Crc` stands in for the CRC16s.

**Link.** A tracker that logs in, sends one packet at a time, waits for the reply, gives up at any
moment and starts over on a new connection; TCP, which delivers any piece in `Cuts` or all there
is; `HandleRequest` for one message. The variable `protocol` is chosen at the start and stays. The
CONSTANTS are, per protocol, the decoder (`HandleBuffer`), the messages of packets, what a packet
means (`PacketRecords`, `CarriesParams`) and which replies the device takes. MCDecoders has their
values for all protocols, which the configurations assign.

The end of Link is a contract between a decoder and a single connection, without a variable: `Kept`
says of sets of states of a connection (its two directions, whether it is open, the session, and
whether the packet of now is saved) that sending, reading and receiving lead from one to the next,
that only the packet that was sent is saved, and that an answer the device takes finds it saved.
MCDecoders computes such sets for each decoder, by closure, and `ContractKept` checks them; LinkProofs
goes from there to any number of connections, and RuptelaProofs proves for one decoder that it keeps
the contract whatever the packets and the cuts.

**Teltonika, Ruptela, Neomatica, Galileosky, Navtelecom, Arnavi.** Each is `Handle(buffer, session)`:
the session, records and replies it leaves, or a panic; and the device's side of the protocol, as
the decoder expects it. A decoder that loops for ever is one that leaves no session and no reply.
What they keep of each decoder is every guard, error return, width and order of reads; names of
params are numbers.

**Egts.** The decoder as a function of a buffer: its responses, records, imei, and whether it panics
or loops for ever; and the packets of a device. A slice that reaches beyond the buffer panics, or not,
with the capacity of the array behind it: `Outcomes` are all that may come of a buffer, each panic with
the responses written until then. A position's fields that a failed read leaves alone keep the values
of the position before (`Kept`).

**EgtsServer.** Two or more handlers and their devices. The decoder is a parameter. A handler goes
through `Read`, `Load`, `Store`, `Number` and `Finish`, in which `packetId++` is a read and a write,
and the number of the response a second read, cut to two bytes (`egts.go:105`). A decoder that
panics has sent its responses up to there, and then ends all handlers (`Panic`).

**EgtsContract.** The parameters of EgtsServer, and what its proofs want of the decoder (`Decodes`),
without a variable: on a whole packet it returns the records, params and responses of the packet,
and ends, unless an identity is not the last; on a piece, the first records of the packet, or it
hangs or panics. MCDecoders checks it of `Egts` for the packets of MCEgts and every piece of them.

| module | peculiarities of the code that the model has |
|---|---|
| Teltonika | login and data told apart by the first bytes; a cut login panics in `Truncate`; 8E's last group truncates the packet (`teltonika.go:301`), by the length of the element before if its own cannot be read, which may panic; the map of params is shared by the records |
| Ruptela | no login; an error returns no imei and so ends the session (`ruptela.go:56`); the length guard (`ruptela.go:175`); assertions of a type a value never has (30, 74, 197 always zero; 134, 136 never set) |
| Neomatica | no reply to a login, a reply to everything else; what follows a login in the same buffer is lost; fuel shares the bit of the counters (`neomatica.go:183`) |
| Galileosky | a repeated tag ends a record; a compressed packet's tag list; a loop that never ends on a truncated packet; panics for a record without speed or altitude; a checksum that is echoed unverified |
| Navtelecom | imei, then the fields of a record as bits in the session; three kinds of message with three replies; a new imei drops the bits |
| Arnavi | a record of data is skipped without its length, and its bytes read as the types of records; no record is ever returned; only a login sets the imei |
| Egts | a record is answered before it is decoded; a Record per subrecord; `Truncate` for the identity, which throws the rest of the packet away; degrees in 32 bits, which wrap; the low byte of the speed; slices that panic or not with the capacity behind them |


## 3 The runs

| run | module, cfg | what it shows |
|---|---|---|
| server_lifecycle | MCServer, ServerLife | All faults at once (panics, endless decoders, failing accepts and queries) and a stop at any moment. The WaitGroup counts the goroutines exactly (`WaitGroupCounts`), a `Stop` that returns leaves nothing running (`StopDrains`), the counter never leaves zero although `Serve` may accept while `Stop` waits (`NoAddAfterZero`), and nothing is stored afterwards (`NoEffectAfterStop`). |
| server_data | MCServer, ServerData | Two messages of two records through a failing lookup, failing insertions, a panic and a stop. What a crash can lose of a connection is its last message (`LossWindow`); no record is stored twice or out of order (`StoredOnceInOrder`), or under another unit although a session may change its imei (`FiledUnderOwner`); a dropped batch ends its session (`DropEndsSession`). |
| server_units | MCServer, ServerUnits | `main_unit` is edited while two handlers save: a batch is never split over two collections (`BatchInOneCollection`). |
| server_live | MCServer, ServerLive | With fairness: `Stop` returns (`StopReturns`), silent devices are disconnected (`IdleReaped`), acknowledged batches are settled (`BatchSettled`), and Server implements Drain with its liveness (`Drains`); each unless a panic ends it all. |
| server_idle | MCServer, ServerIdle | A violation: an idle connection is closed at its 61st timeout, not at the 60th (section 9). |
| main | MCMain, Main | Five configurations and all faults. After the loop exactly the protocols wanted are served (`AllWantedServe`); the log is open while a server is up, whatever the order of the stops does to its files (`LogOpen`); a signal that is received ends the process, or leaves it waiting for a server with a hung decoder and for no other (`StopEnds`); one that comes too early may be dropped, but whoever repeats it is heard (`RepeatedSignalEnds`); nothing is left when main returns (`ExitIsClean`); each server keeps to Drain (`ServersDrain`). |
| decoders | MCDecoders, Decoders | Devices of six protocols, one per behaviour, which abandon connections at any moment. Teltonika, Ruptela and GalileoSky streams are cut within a login, a field, a CRC and between packets; the other three deliver whole messages, alone or together. What the device takes for acknowledged is saved under its imei, with all values (`AckedIsSaved`); nothing but packets it has sent is saved (`SavedIsSent`); what arrives whole in a session is acknowledged, save by Arnavi (`Answered`). A piece of a Ruptela packet ends its session, so that the rest is never read as a packet, and neither the piece nor a whole packet ends the process (`CutEnds`). All that a connection of each decoder can come to is within the contract on which the proofs about Link rest (`ContractKept`). A server that reads what a logged-in device sends has the session the two agreed upon, on every connection: the imei, and for Navtelecom the fields of a record (`SessionAgreed`). Assumptions of the module, which TLC evaluates, are that the Ruptela packets are of those the theorems of RuptelaProofs speak of (`RuptelaScript`), and that the EGTS decoder keeps EgtsContract (`EgtsPackets`). |
| teltonika_nx | MCDecoders, TeltonikaNx | A violation of `Answered`: an element of variable length loses the packet (section 9). |
| egts | MCEgtsServer, Egts | Two EGTS devices, packets whole or cut, and the lockless counter. Unless two handlers were ever in `sendResponse` at once, response numbers are distinct and grow, until the counter goes round (`NumbersDistinct`); whole packets are decoded record by record (`DecodedAsSent`); a piece yields whole records only, in their order (`PieceIsPrefix`); a handler is lost to a loop only by a piece, or by an identity that is not the last of its packet (`HangsOnlyOnPieces`). |
| gateway | Gateway, Gateway | Three packets over three connections, with a crash or a stop at any moment and a restart. What the device was told is safe is stored, in the hands of a handler, or lost by a mishap (`AckedIsSafe`); packets stand out of order or twice only because a later connection has overtaken an earlier one (`OvertakenByLater`); Gateway implements Delivery (`Delivers`). |
| gateway_live | Gateway, GatewayLive | With fairness: what is acknowledged leaves the hands of the handlers (`AckedIsSettled`) and no device waits for ever (`NeverLeftWaiting`), through a crash, a stop and a restart. |
| reader | Reader, Reader | Messages shorter than the buffer, as long, longer, and as long as two buffers in a row, whole or in two parts. The buffer cuts no message (`Boundary`) and takes no more than was sent (`RoomFits`); what a closing session throws away unhandled are exactly full buffers, Size·(2^n - 1) bytes (`LeftoverIsExact`); everything else is handled or the session ends (`EveryByteHandled`). |

Deadlock is not checked: a server that has stopped, a process that has ended and a device whose
packets are all acknowledged, or whose connections are used up, do stop.


## 4 Bounds, and why they are enough

**Server.** `MaxMsgs` messages per connection, `MaxRecords` records per message, `MaxFull` reads in
a row that fill the buffer, `MaxIdle` timeouts (60 in the code). Two connections are the least with
which handlers meet each other and `Serve`, and one of them is accepted while the other keeps the
counter up; connections do not touch each other's variables, and the proofs are for any number. Two
messages of two records are the least that can be swapped, repeated, or lost apart. `MaxIdle` is 0
or 1 where only the two branches matter and 60 in the run about the number. Each run has the faults
its question is about in `Env`: server_data has one connection, since its properties are about the
records of one connection; server_units has two for one unit and no other fault. Connections are
symmetric in server_lifecycle and server_units, which check no liveness.

**Main.** Configurations of up to four protocols: disabled ones first and in the middle,
an unknown one between two known, two on one port, one without a port before and one after others,
none at all. Two connections per server, so that one hangs and the other ends. Signals come at any
moment and as often as they like; those that are dropped change nothing.

**Gateway.** Three packets and three connections: with the third an old handler may be overtaken
by one that is overtaken itself, and two handlers hold the same packet while a third is sent. One
restart is enough for everything a restart can change, as nothing but the stores survives it.
Liveness is checked with two of each, where one connection is abandoned and the other carries on.

**Reader.** `Size` is 2 and the messages have 1, 2, 3 and 6 bytes, up to 8 in all: less than the
buffer, all of it, more than it, the first and the second buffer together, and the same after a
message that was handled. `MaxIdle` is 1. The proofs are for every length of buffer and message.

**Link.** Two or three packets, which differ in kind and in all values, over two or three
connections: one that is abandoned while a packet or its reply is on its way, and one on which
the packet is sent again. `Cuts` are the numbers of bytes TCP may deliver at once besides all: in
the middle of a login and of a header, within a field, at the end of a packet, in its CRC. The
pieces that remain are cut again. Neomatica, Navtelecom and Arnavi have none: nothing in these
decoders tells a piece from a message, and their runs are about whole ones, alone or together.
`ContractKept` depends on the packets and the `Cuts` of the run but not on the number of connections:
it looks at every state of one connection, whatever the device has sent and had answered before.
Of Ruptela the proofs are for every packet, every number of them, and all cuts.

**Egts.** Two devices, of two packets and one, whose records have every field and every type of
subrecord that the code knows; cuts in the header of a record, in a position, behind a record and in
an imei. The run has far fewer responses than 2^16; `NumbersDistinct` ends where the counter goes round.


## 5 Fairness

Weak fairness of `Serve`, of each `HandleRequest(c)` and of `Stop`: the Go scheduler runs what can
run, `AcceptTCP` and `Read` have deadlines of five seconds, and the drivers of the stores answer or
fail. Writes to a connection have no deadline in the code; they end as TCP gives up. Nothing makes
a signal arrive, a device send, or a lookup succeed. A decoder that loops for ever (GalileoSky,
EGTS and BCE have such loops) defeats all liveness: `server_live` leaves it out, `server_lifecycle`
has it,
and Main says what then waits for it.

In Main the same for the main goroutine and, as `Drain` promises, for the end of connections while
their server is stopping; not before, not for the exit of a server that was not asked to stop, and
not for a connection whose decoder hangs. Nothing makes a signal arrive: `RepeatedSignalEnds` assumes
the sender's persistence in the property itself, as `WF_vars(Signal)`.

In Gateway each handler is fair, and so are its statements without the reads that end in nothing:
a handler that is for ever between a timeout and the next `select` reads what is there. The device
is fair in receiving and in noticing a closed connection, `Stopped` is `Stop` returning. That the
device connects, sends or gives up, a crash, a stop and a restart may never happen. In Reader only
the handler is fair: neither the device nor TCP need go on.

Link states that the device keeps trying and that the server reads what arrives, so that its runs
go on; its properties are about states and steps, and no liveness is claimed of the decoders. Egts
states no fairness, and no liveness is claimed of it.


## 6 What is proved

**ServerProofs**, for all values of the constants under `ServerAssumption` (finitely many
connections; `NoImei` and `NoId` are none of the values they stand beside; `Units` maps identifiers
to ids or `NoId`; the bounds are natural numbers). The invariant

    IInv == TypeOK /\ WaitGroupCounts /\ SavingOK /\ StopOK

is inductive (`Inductive`). `TypeOK` alone is not: the counter stays a natural number only because
whoever runs `Done` is counted, which is `WaitGroupCounts`; a record in `coll` is a `Doc` only
because a handler that inserts has records left and an id, which is `SavingOK`. `StopOK` orders the
ends of `Serve` and `Stop`. Its steps are lemmas, one per goroutine, which rest on how one `Goto`
changes the number of live handlers (`GotoCounts`) and on that a live goroutine keeps the counter
above zero (`CounterPositive`). From it follow

* `TypeCorrect`, `CounterExact`: the types and the exact count;
* `Drained`: a `Stop` that has returned leaves `Serve` done, the listener closed, no handler live:
  at zero there is nobody left to be counted;
* `ZeroIsFinal`: the counter stays at zero, because only a counted `Serve` adds to it;
* `QuietAfterStop`: no step after the return decodes, stores or publishes;
* `ImplementsDrain`: initial states map to initial states of Drain, and every step to a step of it
  or to none. It is the safety part, `Drain!Safety`.

**ServerDataProofs**, under the same assumption, is about the records. Its inductive invariant, which
needs `IInv` beside it, is

    DataInv == TodoOK /\ BatchOK /\ TriedOK /\ SettledOK /\ OneWay /\ InOrder /\ OneCollection
               /\ DropEndsSession

The argument goes by how far each handler has come: `Upto(c)` is the number of records of the current
message given to `InsertOne`, and a record is `Tried` if its message is an earlier one or it is among
those. What is stored or missed was tried, and what was tried of a batch is settled (`TriedOK`,
`SettledOK`), in one way only (`OneWay`); so an insertion, which is of the next record, meets nothing
of the same place in a collection, and all there is of its connection comes before it (`InOrder`).
`TodoOK` and `BatchOK` tie the records a handler has left to the batch that was decoded. The theorems:

* `LossBounded`: what is decoded and not settled is of the message being saved, one per connection;
* `OnceInOrder`, `DropEnds`: nothing twice, nothing out of order, nothing after a dropped batch;
* `NeverSplit`: a batch lies in one collection, whatever is done to `main_unit`;
* `Filed`: a document lies under the unit its imei belongs to, under the further assumption that
  `main_unit` is not edited (`"units" \notin Env`), which is also what `server_data` assumes. With
  edits it is false, since the id is looked up once per batch.

**GatewayProofs**, under `BoundsAssumption` (the three bounds are natural numbers). Inductive is

    IInv == TypeOK /\ DeviceOK /\ HeldOK /\ SafeOK /\ OrderOK /\ OvertakenByLater

`SafeOK` says of an answer on its way what `AckedIsSafe` says of one received, since the first becomes
the second. `OrderOK` orders what a connection has stored, holds and has still to read, and puts it
behind all of earlier connections; without it an old handler could still have something unread.
Theorems: `TypeCorrect`, `AckedAccountedFor`, `OrderPerConnection`, and `Implements`: `Gateway`
implements `Delivery`, whose one action `Lose` covers a failing query and the end of the process.

**ReaderProofs**, under `ReaderAssumption` (the buffer and the messages have at least one byte).
Inductive is `IInv == TypeOK /\ StreamOK /\ BufferOK /\ EndsOK /\ RoomOK`: the order of the positions
in the stream, the length of the buffer against what waits in it, that messages which arrive whole are
taken whole, and that the length of the buffer is one that doubling makes of the first. Theorems:
`TypeCorrect`, `RoomMatches`, `WholeMessages`, `LeftoverExact`. The last is about `Doubled`, the
smallest set of lengths with `Size` in it that is closed under doubling; that its members are
Size·2^n, and the leftovers thereby Size·(2^n - 1), takes an induction that is left to the reader.

**MainProofs**, under `BoundAssumption` and `ConfigsAssumption` (configurations are sequences of
protocols of bounded length). The inductive invariant adds to `TypeOK` and `PortsDistinct` what the
loop has done so far (`LoopOK`), what may run in each phase (`StopOK`), that the log is the file of
the newest server (`LogOK`), and that no server is asked to stop before those created earlier have
returned (`StoppedInOrder`). Theorems: `TypeCorrect`, `AllServe`, `DistinctPorts` (two servers never
share a port, whatever is configured and whatever ports the system chooses: a second one is fatal),
`CleanExit`, `OpenLog`, `EachDrains`. `OpenLog` needs the order of the stops: the newest server is the
last to be asked, so that its file outlives the others.

**LinkProofs** is about delivery through a decoder, over any number of connections, packets and
logins, however TCP cuts the streams and whenever the device gives up. The decoder is a parameter,
and what is asked of it is a hypothesis, `Contract`: an empty buffer has no bytes, the constants are
numbers and sequences, and there are sets of states with which each protocol keeps the contract of
Link. The proofs speak of one choice of such sets, `After` a message and `Idle`. For Ruptela the
hypothesis is proved, see below. For the other five decoders the run checks it as `ContractKept`, with
the sets it computes; the packets and `Cuts` are those of the run, which is the gap that remains, and
for three protocols these are whole messages only (section 4). From the contract of one connection
to delivery it is still some way: the device starts over on a new connection while the old one has
messages to be read and answers on their way, and a packet is saved through whichever handler comes
first. The invariant is

    IInv == TypeOK /\ WaitsOK /\ IdleOK /\ LeftOK /\ FreshOK /\ AckedIsSaved /\ SavedIsSent

in which the connection in use is in a state of the contract that fits what the device waits for,
with the packet saved if the state says so (`WaitsOK`, `IdleOK`), connections given up are in a state
after a message the device has sent (`LeftOK`), which is what their handlers may still save, and those
to come are as at the start (`FreshOK`). Theorems: `AckedSaved`, `SavedSent`, `SessionsAgreed`, and
of steps `WholeAnswered` and `PiecesEnd`: a reader is in a state of the contract, which says what
it does with a whole packet and with a piece.

**RuptelaProofs** is about a decoder itself. `WholeRead`: what a device encodes, any number of records
with any groups of values, `Handle` answers and decodes record by record. `PieceRefused`: of every
proper piece of it `Handle` makes nothing, sends nothing, and leaves no session. From these two,
`RuptelaKeeps` gives sets of states with which the decoder keeps the contract, and the theorems of
LinkProofs become `RuptelaAckedSaved`, `RuptelaSavedSent`, `RuptelaAnswered`, `RuptelaSessionAgreed`
and `RuptelaPiecesEnd`. Their one hypothesis, `RuptelaLink`, is that Link has Ruptela for its only
protocol, with the operators of `Ruptela` and `Wire`, and packets of one device that are `Valid`. How
many packets, records and connections there are, what they hold, and where TCP cuts is left open.
`Valid` says what a device can send: an imei, at most 2^16 bytes, records whose fields have the widths
of the protocol and in which a value is not given twice with two contents; and that the checksum
is not 0. The last is a limit of the code and not of the proof, see section 9.

The decoder recurses over records, groups and fields, and so do the lemmas: each recursive function is
given a name and unfolded by one value (`BytesFcn` and those after it), and induction is over a set of
numbers or of lengths (`SetInduction`, `SeqInduction`), because the induction theorems of the library
take an operator. A piece is refused because either its length field is cut or says more than is
there (`ruptela.go:175`), or what is cut off begins within the checksum, which then reads as 0.

**EgtsProofs**, for any number of handlers. About the numbers, without any assumption on the
constants and for any decoder:

    IInv == TypeOK /\ (overlap = FALSE => Serial /\ Distinguished)

Without an overlap one handler at a time is between the two accesses of `packetId++` and the number
it sends, and its copy of the counter is fresh (`Serial`). While the counter fits into two bytes, the
numbers sent are at most the counter, and less while one is about to be sent (`Below`), so that
the next is new (`Distinguished`). `Below` is why `NumbersDistinct` is not inductive as it stands.
Theorem: `Distinct`.

About the data, under the hypothesis that some set of buffers is as EgtsContract wants it (`Contract`):

    DInv == Functions /\ \A c \in Conns : Good(c)

`Good(c)` ties what was said to the device, what is still to be said and what the handler has
decoded to the packets read so far. `DecodedAsSent` alone is not inductive: it speaks of moments with
nothing on the wire, and while a packet is there the responses must be known to be those of the
packets before it (`RespondedOK`); a whole packet must be known not to have been begun (`WireOK`), and
a handler that reads to have nothing left to send (`ResultOK`). The responses of one packet more are
what `FlattenSeq` makes of one sequence more (`FlattenMore`). Theorems: `Whole`, `Pieces`, `Hangs`.

## 7 What is only model-checked

* Liveness (`StopReturns`, `IdleReaped`, `BatchSettled`, `StopEnds`, `RepeatedSignalEnds`,
  `AckedIsSettled`, `NeverLeftWaiting`, `EveryByteHandled`, and that part of `Drains`): it needs fairness and ENABLED,
  which the prover does not reason about.
* `ContractKept`, which is about the decoders on the packets of the run: proved of Ruptela, it is
  only checked of Teltonika, Neomatica, GalileoSky, Navtelecom and Arnavi. Nor is `EgtsContract` proved of
  `Egts`; TLC evaluates it for the packets of MCEgts and every piece of them. These decoders have
  `RECURSIVE` operators, which a module with proofs cannot reach; Ruptela and Wire are written as
  recursive functions and folds.

All other properties of the runs that are expected to pass are stated by a theorem.


## 8 What is not modelled

* **BCE.** What it can do is little: a struct with a position hangs the handler, since the loop over
  the masks (`bce.go:337`) waits for bit 15 of a byte; a packet of the kind that asks for an answer
  panics in the checksum of that answer (`bce.go:417`); the slice of records is never assigned to
  `res`. It never answers and never returns a record, so that every property of the decoders holds of
  it and says nothing. `Server` has both outcomes, as `HandleSpins` and `Panic`.
* **GalileoSky by Iridium**: `handle` gets to it only when the bytes after the header are 01 00 1c.
  Not modelled either is `decodeMinimalDataSet`, which nothing calls.
* **Arnavi's `decodePosition`**: it is behind a test that is never true, and nothing else calls it.
* **Subrecords of EGTS that the code does not know**: their lengths are read and not used, so that
  their bytes are taken for subrecords. The devices of the run send none. Nor is the layout of the
  responses modelled, whose checksums nothing in the code reads.
* **Pieces of Neomatica, Navtelecom and Arnavi messages**: see section 9. What their rest is read as
  depends on single bytes, which `Wire` does not have.
* **The contents of checksums, formatting of records, names of params, logging's text.** A
  checksum is a stand-in that differs when a field differs; a collision is not modelled.
* **The stores**: what they do with a document is theirs. That they fail, and when, is modelled.
* **Which records are published**: any may be or not; the code asks whether it is ten minutes old.


## 9 What the models showed

Two disagreements between the code and its own comments, each with a run:

* `server_idle`: the comment at `server.go:194` says that a connection is closed after 60 timeouts,
  five minutes. The counter is tested before it counts the current timeout: it takes 61.
* `teltonika_nx`: `teltonika.go:4` announces codec 8 extended. An element of its variable-length
  group makes `buff.Truncate` (line 301) throw away the rest of the packet, which is then refused
  by its CRC, never acknowledged, and sent again for ever.

What else was met on the way, which no comment speaks against; the models have it as it is:

* `Stop` closes the stores before the handlers end: their last, acknowledged batches are lost. By
  `LossWindow` it is no more than the last message of each connection.
* `res.error == errors.New("crc16")` (`server.go:220`, `235`, `teltonika.go:72`, `ruptela.go:48`)
  compares pointers and is never true: the branches on it are dead.
* A failed accept that is no timeout starts a handler of a nil connection, which panics.
* The signal channel has no buffer: a signal just before the receive is dropped, and so are those
  that come while the servers stop, so that a process that waits for a hung decoder does not hear them.
* A malformed port in the configuration is not an error: the protocol listens on a port nobody knows,
  and if that is one a later protocol is configured for, the whole process ends there.
* Acknowledged packets are lost over a restart, one per connection: the answer precedes the
  insertion. Packets are stored twice and out of order when a device changes connections while an
  old handler is saving.
* A message of exactly 2048·(2^n - 1) bytes is taken for one that goes on: it waits for the next,
  and is thrown away unanswered when the session ends first.
* Neomatica, Navtelecom and Arnavi acknowledge pieces of messages, and the first two save them;
  GalileoSky and EGTS loop for ever on one; Teltonika panics on a piece of a login; Ruptela ends the
  session and is sound, by `RuptelaPiecesEnd` for every packet but one: the proof of `PieceRefused`
  does not go through for a packet whose checksum happens to be 0. Cut in or before it, it reads as 0
  all the same: the piece is accepted, and the rest ends the session.
* Arnavi: RECORD_DATA is never decoded, and a position is neither answered nor saved. Everything
  after a login ends the session, since only a login sets the imei.
* EGTS: records are saved only if the identity comes in the same packet. An identity that is followed
  by anything hangs the handler, since `Truncate` throws the rest away. The degrees are multiplied in
  32 bits and divided as integers, and only the low byte of the speed is used. Two handlers that
  respond at once send the same number.


## 10 Plan

Done:

1. `Server` with `Drain`: the core, which every protocol goes through. Its runs; `ServerProofs` for
   the stop, `ServerDataProofs` for the records.
2. `Main` over `Drain`, `MainProofs`.
3. `Wire`, `Link` with the protocol as a variable, and the decoders of six protocols in one run.
4. `Gateway` over `Delivery`: several connections, crashes and restarts; `GatewayProofs`.
5. `Reader`: the doubling buffer in bytes; `ReaderProofs`.
6. `Egts`: the nested loops; `EgtsServer`: two handlers that share `packetId`; `EgtsProofs`: the
   numbers, and the data from a contract, which TLC checks of the decoder.
7. `LinkProofs`: all five properties of Link from a contract, which the run checks of each decoder.
8. `RuptelaProofs`: the contract, for every packet of Ruptela.

Left, in this order:

1. The contract proved of Teltonika and of `Egts`, whose loops are to become recursive functions
   first, as those of Ruptela did.
2. Pieces for Neomatica, Navtelecom and Arnavi, with properties that hold of them (what a piece can
   and cannot do to the session), over a `Wire` that has the bytes of small fields.
3. `Link` as an implementation of an abstract specification like `Delivery`, under the contract.
4. `BitUtil` and `Bitset` against reference definitions, over all bytes.
5. GalileoSky's Iridium packets; EGTS subrecords that the code does not know.
6. `Bce`, once its loop and its checksum are mended.
