# J1939-Framework in TLA+

TLA+ modules for the J1939 framework: address claiming, the broadcast transport
(BAM), the periodic sender, the sniffer with the programs that listen, the codecs
with the database behind them, the history of the signals and its graphs, the three
programs that edit frames while they are sent, and the trace files. What they are
about is what depends on interleavings, losses, timing, order and wrap-around. TLC
checks them on small instances, TLAPS proves all but one of their invariants for every
instance.

`PROJECT.json` lists the runs, the source lines of every definition (`map`),
one mutant for every property, the hazards, the findings and the theorems.

    tlc -config AddressClaimer_async3.cfg MCAddressClaimer    # a run
    tlapm BamTransport_proofs.tla                             # a proof

## 1. Inventory

| component | code | state | operations | modelled |
|---|---|---|---|---|
| Address claiming | `j1939AddressClaimer/`, `BinUtils/j1939AddrClaim` | mailbox `mFrames` (a map by identifier), queue `mPreferred`, `mCurrentSrc` | `receive`, `exec`, `claimAddressStep`, `tryObtainAddress`, `processAddressClaim` | `AddressClaimer` |
| BAM transport | `J1939/Transport/` | `mFragments` per source, `mReassembledFrames`, `mLastError`; `mDTFrames` of the fragmenter | `fragment`, `toBeHandled`, `handleFrame`, `dequeueReassembledFrame`, `clear` | `BamFragmenter`, `BamReassembler`, `BamTransport` |
| Periodic sender | `CAN/CommonCanSender.cpp` | rings of frames with position and timestamp, `mFinished` | `run`, `sendFrames`, `unSendFrames`, `isSent`, `finalize` | `CommonCanSender` |
| CAN receiver, sniffer | `CAN/CanSniffer.cpp`, `CommonCanReceiver.cpp`, `Backends/*/` | filters, `mRunning`, receive buffers | `sniff`, `wait_fd`, `notify`, `receive`, `filter`, `finish`, `reset` | `CanFilter`, `CanSniffer` |
| j1939AddressMapper | `BinUtils/j1939AddressMapper` | NAMEs shown | `main`, `onRcv` | `Listener`, `AddressMapper` |
| j1939Sniffer | `BinUtils/j1939Sniffer` | PGN, title and source asked for, a reassembler | `processCommand`, `main`, `onRcv` | `Listener`, `J1939Sniffer` |
| Frame and SPN codecs | `J1939/GenericFrame.cpp`, `J1939Frame.cpp`, `SPN/` | SPNs of a frame with their offsets | `registerSPN`, `setFormattedValue`, `recalculateStringOffsets`, `encode`, `decode`, `compare` | `SPN`, `GenericFrame` |
| SPN history | `J1939/SPN/SPNHistory.cpp`, `Common/Utils.cpp` | samples with time stamps | `addSample`, `getWindow`, arithmetic of `TimeStamp` | `TimeStamp`, `SPNHistory` |
| DM1, FMS1 | `J1939/Diagnosis/`, `J1939/FMS/` | trouble codes, tell tale blocks | add, set, delete, encode, decode | `GenericFrame` |
| GUI backend | `GUI_WEB/backend/src/` | `rxFrames`, `rcvFramesCache`, answers; `framesToSend`, `framePeriods`; `historyMap`, sessions of graphs | websocket callbacks, `onRcv`, `resetReceiver`, add, set, delete, send, unsend; `saveToHistory`, `getGraphFromSPN` | `GuiReceiver`, `GuiSender`, `Graph`, `Signals` |
| Web server backend | `web/backend/server.cpp` | queue of answers, senders | `EventHandler`, `process_cmd`, `sendQueue`, `sendFrame` | `WebServer` |
| j1939Sender | `BinUtils/j1939Sender` | frames by name, periods, tell tales | create, set, send, unsend, tts and dtc commands, quit | `FrameSender`, `J1939Sender` |
| Trace files | `CAN/TRC*.cpp`, `BinUtils/TRCDumper`, `TRCPlayer`, `TRCToCap` | stream buffer, `mCounter`; `mCurrentPos`, `mTotalFrames`, last frame; the player's list | record, Ctrl-C; load, read, seek, reset; play, convert | `TRCDumper`, `TRCReader`, `TRCPlayer` |
| Factory, database | `J1939/J1939Factory.cpp`, `J1939DataBase.cpp` | registered prototypes | `parseJsonFile`, `registerDatabaseFrames`, `getJ1939Frame` | `J1939Factory` |
| RTS/CTS transport | `J1939/Transport/RTSCTS` | none (a stub) | none | no |
| Interface helpers | `CAN/CanEasy.cpp`, `ICanHelper.cpp`, `Backends/*/*Helper.cpp` | helpers and senders by interface | `initialize`, `createCanHelpers` | `CanEasy` |
| j1939Decoder | `BinUtils/j1939Decoder` | a reassembler | one frame per line of input | no |
| Peak driver | `CAN/Backends/PeakCan` | in the driver | driver calls | no |
| Wireshark dissector | `wireshark/dissector` | Wireshark's fragment table | display | no |

How they interact. A program opens a receiver and a sender for an interface
through `CanEasy`. A `CanSniffer` thread reads the socket and calls the program's
`onRcv`, which hands transport frames to a `BamReassembler`, asks the factory for
a decoded frame and stores or prints it. To send, the program encodes a frame,
splits it with `BamFragmenter` if it is longer than 8 bytes, and gives the frames
to `CommonCanSender`, whose thread transmits the ring over its period. The address
claimer has a sniffer thread of its own that feeds its mailbox and a thread that
claims, defends and gives up addresses.

What is hard to test:

* two threads per ECU and any number of ECUs, with a mailbox that overwrites,
  a flush, a timeout that races a late claim, and a condition variable that may
  wake without cause;
* packets of several sources interleaved with losses, aborted transmissions,
  frames of other protocols, decoders that throw, and numbers kept in a `u8`;
* a sniffer thread that fills a cache and a list of changes while the websocket
  thread empties the one and, after a `join`, the other;
* frames that change their identifiers, length or period while senders know them
  by the old ones;
* a sender thread that is late, works on rings the application replaces, and
  divides a period by a number of frames;
* histories that grow on one thread while the other walks through them, with clocks
  read before and used after, and time stamps carried by hand;
* signals that share bytes, strings that move the ones behind them, comparisons with
  a frame of another length;
* a queue of answers that all pages share, and callbacks that are joined into one.

The properties that make each part correct: an address is used by one ECU, and a
conflict never goes unnoticed; a message is delivered whole or not at all; a ring
keeps its period, is there once, and calls to the sender take effect; a receiver
hands on what its filter asks for, all of it and in order; what the GUI suppresses
as unchanged is on the page; what is sent is what the lists of frames hold; decoding
inverts encoding; the history ends with the value received last and a graph shows the
history; an answer finds the page that asked for it.

## 2. Modules

### AddressClaimer

One bus with a set `Nodes` of ECUs; each has the variables of an
`AddressClaimer` object, the program counter `pc[n]` of its claimer thread and
the frames `rx[n]` waiting in its socket. A step of the claimer ends where
someone else can notice: at a read of the mailbox (under `mMutex`) or at a
transmission.

| code | model |
|---|---|
| constructor, thread start | `Start` |
| `receive` (sniffer thread) | `Receive`: filter, then replace the frame of the same identifier |
| `claimAddressStep` | `Begin` (flush), `TryNext` (rotate, announce), `Retry`, `CannotClaim` |
| `tryObtainAddress` | `Announce`, `Contend`, `OtherClaim`, `DropRequest`, `Timeout`, `SpuriousWakeup` |
| `exec` | `MainRequest`, `processAddressClaim`, `Answer` |
| `MyAddressClaimer::sendFrame` | `sendFrame`: reaches every other running ECU, or fails unnoticed (`MaxLost`) |

External: `Request` (some tool asks for claims) and `Tick` (250 ms pass). With
`Timely = FALSE` the wait may end at any moment, which covers every delay. With
`Timely = TRUE` it ends only after everything that was on its way has been
handled, the assumption SAE J1939 makes.

`MCAddressClaimer` adds a choice made once, `setup`: three ECUs of which nothing is
lost, or two with one lost transmission and one request. So one run answers both
questions with bounds of its own.

Abstracted: the NAME is a number, frames are records of the fields the code looks
at, priorities are equal (`Identifier` orders the mailbox as the code's map does).

### BamFragmenter, BamReassembler, BamService, BamTransport

`BamFragmenter` says which frames a message becomes. Sequence number and packet
count are `u8`, the size is `u16`, `mDTFrames` is a map keyed by the `u8` number:
from 256 packets on, packets overwrite each other (`DataFrames`, `SqAt`,
`PacketAt`). A byte is `<<message, position>>`, so a byte in the wrong place is
visible; padding and bytes nobody wrote are values of their own.

`BamReassembler` has one branch of the model for each branch of `handleFrame`,
among them the factory that returns nothing or throws (the fragments then stay).

`BamTransport` composes them: every source sends its frames in order, sources
interleave, frames are lost, transmissions are given up, frames of other
protocols arrive, `clear()` is called. `Receive` is `onRcv` of the GUI backend
(filter, then `handleFrame`); `Stray` also allows the decoder's use without the
filter.

`BamService` is the abstract specification: whole messages, each at most once,
only the one its source announced last. `ImplementsService` is the refinement
with `delivered` mapped to what was dequeued followed by what is queued.

### CommonCanSender

`run()` as `ReadClock` (before the lock is taken), `Lock`, one `Visit` per ring,
`Unlock`; the application's calls as a search without the lock (`sendFrames`,
`unSendFrames`) followed by the change under the lock (`Push`, `Remove`), then
`finalize` and `Join`. Times are milliseconds relative to the present: `age` is
now minus `mTxTimestamp`, `since` the time since `run()` read its clock. `phase`
is an auxiliary field: how long ago the current cycle should have begun, counted
in whole periods from the first transmission.

Abstracted: parts of a millisecond (the code truncates them), the data of the
frames, the callback (it only rewrites data) and the success of the write. The
machine has been up for longer than any period, so a timestamp of zero means
"long ago". One application thread calls the sender, as in every program of the
repository. `pushFrame` has no caller.

### CanFilter, CanSniffer, Listener, AddressMapper, J1939Sniffer, Listeners

`CanSniffer` is the machine without a program: `wait_fd` and `WaitTimeout` are the
two ways out of `select()`, `notify` reads one frame of the receiver it is the turn
of, `CallbackReturns` and `NotifyEnds` go on with the next, `Check` looks at
`mRunning`. While `thread = "callback"` the program's `onRcv` runs. Two kinds of
receiver: a socket, whose frames the kernel filters when they arrive
(`KernelFilter` is what `setFilters` writes, `KernelAccepts` is external), and a
Peak receiver, whose frames `filter` sees after the read. A read may fail; a socket
then hands on a frame as constructed (`NoFrame`). Identifiers and masks are sets of
bits, so that `&` and `|` are intersection and union.

`Listener` is what j1939AddressMapper and j1939Sniffer share: `main()` opens the
interfaces, installs a filter and stays in `sniff()`. Frames arrive from the moment
the interfaces are open, before the filter too: `HandsOnWanted` excepts just these,
although the comment at the filter of the mapper says "Receive only frames with the
ADDRESS_CLAIM_PGN". `AddressMapper` adds the mapper's `onRcv`. A claim has its 8 bytes:
`onRcv` does not catch what the factory throws for a shorter one. The translation of
a filter for standard frames only, which no program asks for, loses the flag it has
just set (`SocketCanReceiver.cpp:72`): `KernelFilter` is faithful to that.

`J1939Sniffer` adds the sniffer's three filters (`SniffFilters`: the PGN, and the PDU
formats of TP.CM and TP.DT), its arguments (`ByPgn`, `ByTitle`) and its `onRcv` with
the reassembler of `BamReassembler` (`SniffIgnored`, `SniffThrows`, `SniffSimple`,
`SniffPart`, `SniffWhole`). A failed read looks like PGN 0 without data; what the
factory makes of that is the constant `Empty`: with PGN 0 in the database and a signal
in it, `decodeData` throws and the program ends; without a signal there is a frame
(`Blank`), which `ShownIsSent` excepts. There is one reassembler for all interfaces and it knows a
sender by its source address: `ShownIsSent` and `MessageShown` except sources that
are on two interfaces. With a title the PGN to be looked for stays 0, so that frames
of PGN 0 are shown as well, and with a PGN the title stays empty, so that frames
without a title are; `ShownIsSent` says just that.

`Listeners` composes them: `program` is one of `Programs`, and `Traffic` gives each
the messages and frames of its bus, some of which begin before the program listens.

### GuiReceiver

The sniffer thread, the websocket thread and the browsers. `onRcv` is cut before
each section under `rxLock`: `OnRcvUnchanged`, `OnRcvThrows`, `OnRcvUnknown`,
`OnRcvTransport`, `OnRcvDecoded` (fills the cache), then `OnRcvShow` (fills
`rxFrames`). Requests wait in `requests`; `CheckRx`, `ShowRaw`, `ResetReceiver` and
`Join` handle them, `Writeable` gives the first answer to some session, `Merge` is
`onmessage` of the page. `Poll`, `Open`, `Reset`, `Toggle` are what a user and the
timer of the page do. The properties hold for one page: with two, each answer
reaches only one of them.

A PGN may be sent whole and in packets: a DM1 with one trouble code is a frame, with
two it is a message, and so with strings. `BamReassembler` gives the message the
identifier of the frame, and the page has one entry for both, but only the frame goes
to the cache. `Messages` may therefore contain identifiers of frames. A frame that
comes again after such a message is suppressed while the page shows the message:
`gui_bothways` shows this against the comment at `J1939GUI.cpp:124` ("Cached received
frames to avoid processing frames that did not change"), and `UnchangedIsShown`, which
is about everything else, excepts the identifiers under which a message was shown last
(`Overtaken`).

`MCGuiReceiver` adds a choice made once, `bus`: which frames besides the known one are
on the bus.

Abstracted: the counters of received frames, the wording of the answers; the history
is in `Signals`. An exception of the factory, at a frame or at a whole message, ends
the program (`terminated`), as nobody catches it on that thread.

### FrameSender, GuiSender, J1939Sender, CanEasy, WebServer, Senders

`FrameSender` holds what the programs do with a frame: `Ids` (its own identifier,
or those of a TP.CM and the TP.DTs if it has more than 8 bytes), and a sender as a
set of rings that is searched by identifiers. That a sender may be taken for such a
set is what `UniqueRings` and `CallsTakeEffect` of `CommonCanSender` say. Priority
and source address are one value, the SPNs are one value with the number of packets
it takes. `owner` of a ring and `moved` are auxiliary.

| code | model |
|---|---|
| `processRequest` add, delete | `Add`, `Delete` |
| `processRequest` set | `Set`: all changes, then `Refreshed` on every interface, then `Switched` |
| `parseCreateFrameCommand`, `parseSetFrameCommand` | `CreateFrame`, `SetFrame` (with `notifySender`) |
| `parseSendFrameCommand`, `parseUnsendFrameCommand` | `SendFrame`, `UnsendFrame` |
| add, set, delete dtc | `EditDtc`: changes the frame and tells nobody |
| tts commands, quit | `SendTts`, `SetTts`, `UnsendTts`, `Quit` |

Both look for a frame in the sender under the identifiers it has after the change.
When source, destination, priority or the number of packets changed, the old ring
is not found and goes on (`moved` in `DeletedIsSilent`), although the comment at
`J1939GUI.cpp:496` says "if the frame is being sent, refresh the information to the
sender".

`CanEasy` is the way from an interface to its sender: `createCanHelpers` (once per
process; every interface may fail to initialise in every way its backend knows) and
`initialize`, which makes a new sender for each helper; the old one goes with its
rings. `OtherProgram` brings interfaces up and down meanwhile. `WebServer` is the
server of `src/web`:

| code | model |
|---|---|
| `LWS_CALLBACK_RECEIVE` | `Receive`: `Query`, `SetBaud`, `Create`, `Malformed`, `Mistyped` |
| `process_cmd` and the handlers | `process_cmd_list`, `process_req_frame`, `process_set_baud`, `process_create_frame` |
| `LWS_CALLBACK_SERVER_WRITEABLE`, `sendQueue` | `Writeable`, `sendQueue` |
| `lws_callback_on_writable` | the same name, external: one flag per session |

Answers wait in one queue; each callback sends the first one to the session it is
for. A second request before the callback asks for a callback that is already asked
for, and an answer stays behind: `FewAnswersStuck` counts how many there can be
(`missed`), and `AnswersFindAsker` says that pages which take turns get their own
answers. Every page begins with "set baud rate", which replaces the senders and with
them what another page is sending; "create frame" for an interface without a sender
ends the server (`crashed`), and so does a JSON value of another type than the handler
reads, or a number too large for it: the handlers catch `invalid_argument` only
(`Mistyped`). `Senders` runs one of the three programs.

### SPN, GenericFrame, J1939Factory: frames and their bytes

Operators without state. `SPN` has the three kinds of signals; `GenericFrame` the
frame classes with their signals, trouble codes and tell tales, `encode`, `decode` and
`compare`; `J1939Factory` reads a database, with everything it refuses, and clones and
decodes prototypes. Bytes are numbers and integers have their widths. An exception is
`ok = FALSE`; an `ASSERT` ends the program, whose factory is then empty. Abstracted:
gain and offset of a number (a value is the raw one), names and descriptions. The
comparison of two strings reads behind the shorter one: the first byte is the
terminating zero, what comes after is undefined and `Differs` allows every value. A
DM1 frame of less than two bytes is not among the inputs: `decodeData` reads its lamps
behind the end of it.

### TimeStamp, SPNHistory, Graph, Signals: the way of a signal

`Signals` follows a signal from the program that sets it to the page that draws it:

| code | model |
|---|---|
| a program that creates and edits a frame | `Create`, `SetSpn`, `AddDTC`, `SetDTC`, `DeleteDTC`, `SetTTS` |
| `onRcv` | `onRcv` up to `compare`, then for each changed signal `SaveToHistory` (the history is there, the clock is read) and `AddSample`; the cache is filled after the last one |
| `resetReceiver` | `ResetReceiver` |
| `SPNHistory::addSample`, `getWindow` | `addSample`; `BeginPos`, `NextPos` |
| websocket callbacks of `graph.cpp` | `Established`, `Closed`, `GetGraph`, `Point` (one turn of the loop), `Writeable` |

`onRcv` is cut where the websocket thread can see a difference. The code has no lock
between the two: a history is reserved for its capacity, so that its samples never
move and a sample is there or not. The map of the histories has no such promise: a
search while the receiver thread inserts a history may miss or read freed memory
(`GraphRace`). Otherwise `GetGraph` has four outcomes: nothing to show, the
loop begins, a division by zero for no points (`GraphDivision`), and a loop with step 0
that never ends for more points than milliseconds (`Endless`); the last two end the
program. Both programs read the same database. `missed` is auxiliary: signals `compare`
took for unchanged although the frame before did not have them, which is the subject
of `signals_missing`.

The sum of two time stamps carries only what is more than a second, so a sum of
exactly one second is not normalised (`Plus`); `PointsShowHistory` therefore lets a
sample at the very time of a point be shown or not.

### Trace files: `TRCDumper`, `TRCReader`, `TRCPlayer`

`TRCDumper` has the callback that writes a line (`OnRcv`, six `Insert` into the
buffer of the stream, `EndLine` for `std::endl`, which flushes) and two ends:
`onSignal` closes the file with what is in the buffer, `Kill` loses the buffer.
libstdc++ moves the end of the buffer once per insertion, so a line is cut between
insertions only. `lines`, `inserted` and `flushed` are the file and the buffer;
`recorded` is auxiliary. `File` in `TRCReader` is what is on disk then, each line
with the number of its parts; `Readable` says when the parser of `readNextLine` ends
in the right state. `TRCPlayer` composes both with the three users of the reader:

| code | model |
|---|---|
| `TRCReader::loadFile`, `checkIntegrity`, `unloadFile` | `LoadFails`, `Loaded` |
| `readNextCanFrame`, `readNextLine` | `readNextCanFrame`: `ReadLine`, `ReadEnd` |
| `seekPosition`, `reset` | the same names; used by `Use`, any program |
| `TRCPlayer` | `Start`, `Read`, the keys, `Send`, `Show` |
| `TRCToCap` | `Start`, `Convert` |

Three things the model shows and no document of the repository speaks of. A
recording without frames counts as one frame (`mTotalFrames` is the last position
plus one), so that the tools' message "TRC file is empty" is never printed and the
player sends a cleared frame; `ReplaysRecording` leaves this case out. A frame
without data is written to a line that `readNextLine` never finds complete, and the
whole file is refused. Ctrl-C in the middle of a line, unlike a kill, can leave a
file that is refused. The format of the identifier is not recorded: every frame is
played as an extended one, which the model has no field for. Times are in units of
50 us, half of what a line can tell apart; errors of floating point below that are
left out. The seconds are turned into milliseconds in a `u32` (`Milliseconds`), so that
the times in a file start again after 2^32 ms, some 49 days: frames recorded later
than that are replayed a number of times 2^32 ms early, which `ReplaysRecording` allows
(`k * WORD`) and no document speaks of.

The player lists a message under its identifier, which a frame may have as well: the
entry is replaced by what came last (`Listed`, where the code calls `copy()`), and
`ListIsLatest` says so for both.

## 3. Runs

| run | instance | what it shows |
|---|---|---|
| `claim_async3` | 3 ECUs, 2 addresses, any timing, spurious wakeups | no conflict without something left to reveal it; the smallest NAME gets its first choice; an address is given up only for a NAME that is not larger |
| `claim_timely` | 3 ECUs, 2 addresses, timely; or 2 of them, one lost transmission and one request of three kinds | no address is used twice; contention ends though `CLAIM_RETRY` has no limit; every ECU gets an address; a request to all repairs what a lost claim broke |
| `bam_bus` | 2 sources, 4 messages, strays, decoders that fail, one loss or `clear()`, and two aborts, none of them before it | every message that arrives completely is delivered, `BamService` is implemented: faults cost messages and never damage one |
| `bam_twolosses` | a TP.DT and the next TP.CM lost | *violation*: packets of two messages are put together |
| `sender_cadence` | rings of 2 frames in 6 and 7 ms and of 1 frame in 2 ms, 2 ms delay | rings are unique, calls take effect, no drift, `finalize()` returns |
| `listeners` | a socket and a Peak interface; the mapper with 3 frames; the sniffer by PGN or title, with and without a source, with messages of 2 packets and single frames; a failing read for the mapper and for a sniffer, where the factory throws | what the filter asks for is handed on, all of it, in order; what is shown was sent and asked for; every claim and every message asked for is shown |
| `gui_page` | one page, an answer on its way; two data of a known frame with one of the transport, which may complete a message with its identifier, or with an unknown frame; or a frame that throws | what is suppressed as unchanged is on the page or on its way, or a message is; decoded frames show up; a reset returns |
| `gui_bothways` | the same | *violation*: the frame before the message is suppressed after it |
| `senders` | the GUI and j1939Sender with 2 frames, 2 interfaces, a value of 2 packets, 2 periods, tell tales; the web server with 2 pages, 3 requests, right and wrong ones, a socket and a Peak interface | rings follow their frames; a deleted frame is silent unless it changed identifiers while sent; what is sent under a frame's identifiers is current, tell tales too; answers are stuck only where callbacks were joined, and find the page that asked |
| `trace_replay` | up to 3 frames (two data of a known frame, one of the transport, one without data), Ctrl-C or a kill, three programs | what is played or converted is what was recorded, complete, in order and in time up to a wrap of the milliseconds; a killed recording can be read; the reader's position is right however it is used; the player's list has what was sent last; the tools end |
| `signals` | a database of numbers, states and strings, and eight with mistakes; four uses: editing, receiving with frames of another length and a reset, the lamps of DM1, two pages that ask for graphs | what is encoded is decoded to the same; the history ends with the value received last; a graph shows the history, and arrives |
| `signals_missing` | one frame with the value 0 | *violation*: the first frame is compared with an empty string and taken for unchanged |

The bounds. Three ECUs with two addresses are the smallest bus in which one ECU
stays without an address and one contention sets off another. For the transport two
sources suffice for interleaving, because the reassembler keeps sources apart; two
and three packets with a short and a full last packet cover first, middle and last;
`Tolerable` limits `bam_bus` to what the transport stands (see `bam_twolosses`); the
limit of 255 packets is in the theorems. The sender's periods are as small as the
condition `Compensable` allows with 2 ms of delay, with and without a remainder.
Three frames on two interfaces give a wanted frame before and after an unwanted one
and one that arrives while `notify` is at work. `BufferSize`, `QueueSize` and
`MaxAnswers` bound what is on its way between the threads and the page of the GUI;
`QueueSize = 2` lets a reset, a reload or a switch of the raw frames overtake or
follow a poll. Two frames of one PGN start with the same identifiers, so rings are
shared and taken over from the first step on. Three recorded frames give a first, a
middle and a last line, and time stamps 0, 1 and 5 one that has to be rounded, one
that goes back and, with a second of 2 and a word of 4 units, one behind the wrap.
Five programs listen, each on traffic of its own: a message whose TP.CM was missed,
one of another source, one of another interface, one that cannot be decoded or is
not known. Three requests of two pages are the fewest that join two callbacks while
a third answer waits. A second of 4 us and 2 ms makes carries and borrows happen
within the four microseconds that pass; `U32 = 6` makes the time of a request wrap,
`CAPACITY = 3` fills a history, `MAX_SAMPLES = 3` cuts a request for more points;
strings of 0, 1, 2 and 255 characters, one with a terminator, one with a zero and
one that is not ASCII are set in any order. The proofs remove the bounds for what is
listed in section 5.

Deadlock is not checked: ECUs may all be settled, a sender has a last message, a
finalized sender ends, the bounded bus falls silent and a program may have been
quit or ended by an exception. The three violations are the findings of `PROJECT.json`: each states
what a header or a comment says and shows the behaviour of the code that differs.

## 4. Fairness

`AddressClaimer`: weak fairness of both threads of an ECU (`Receive`,
`Claimer`) and of time (`Tick`). They are operating system threads without a
stop condition, and none of their steps waits for anything but the mailbox.
Switching an ECU on, requests and losses are never forced.

`CommonCanSender`: weak fairness of the thread of `run()`, of time and of the
`join` in `finalize()`. The application is not forced to call anything. `run()`
cannot be kept from the mutex forever: with one application thread that holds it
for a single change, the lock is free again after every call.

`Listeners`: weak fairness of the main thread and of `sniff()`; nothing forces a
frame to arrive. `Signals`: weak fairness of the receiver thread inside `onRcv` and of
the websocket thread; neither waits for the other. `GuiReceiver`: weak fairness of the sniffer thread, of the handling
of requests and of the service of writable sessions (both in the loop around
`lws_service`), and of the poll, which the page's timer repeats every 200 ms. `Join`
belongs to the websocket thread and is enabled only once the sniffer thread has
ended, so that `ResetReturns` rests on `finish()` being seen.

The programs of `Senders` handle one request or command at a time; an answer of the web
server may be stuck, so that nothing is promised to happen later. `BamTransport` states no liveness: the transport has neither timeouts nor
retransmissions, so nothing is promised to happen. `NothingMissing` says instead
that nothing is outstanding once a sender is done.

`TRCPlayer`: weak fairness of the player (`Play`), of time and of the converter
(`Convert`), which are single threads that wait for nothing but the clock. Keys, the
frames on the bus and the end of the dumper are never forced.

## 5. Proofs

Eight modules hold theorems about a specification, each for every value of its
constants. The assumptions are the named ones of the modules; TLC evaluates them in
every run. Most only fix types. The others, and why the code grants them:

| assumption | what it says besides types | because |
|---|---|---|
| `SetsAssumption` | a ring has a frame | `sendFrames` is called with the frames of an encoded message |
| `SnifferAssumption` | the receivers of a sniffer are pairwise different; `NoFrame` and `Failure` are no frames of the bus | `CanEasy::initialize` adds a new receiver for each interface |
| `ListenersAssumption` | the filters are for extended frames, and no standard frame passes for one that is asked for | both programs make their filters so; a Peak receiver compares identifiers only, so that the second part could fail for a PGN below 256, where 11 bits suffice |
| `BitsAssumption` | the flag of an extended frame is none of the bits of an identifier | `CAN_EFF_FLAG` of the kernel |
| `FrameSenderAssumption` | a frame of a user has neither the PGN of TP.CM nor that of TP.DT | these are made by the fragmenter only |
| `J1939SenderAssumption` | there is more than one FMS1 frame, and no frame of the user has their identifiers | there are four, of one PGN; a frame of several is a TP.CM and TP.DTs |
| `PlayerAssumption` | a cleared frame is not decoded | a frame of PGN 0 without data is too short for what the database says of it |
| `DumperAssumption` | a second, and the word the milliseconds are kept in, are not empty | 1 s and 2^32 ms |
| `TimeAssumption` | a second is a number of whole milliseconds | 1000 of 1000 us |
| `SniffersAssumption` | a sniffer is asked for a PGN, or for a title that is not empty and that one PGN has, of one source or of all; the other frames of its bus have a PGN and a source | what `processCommand` makes of its arguments; a title that several PGNs have finds the first of them, which is a PGN again, but then others pass with the same title |
| `IdentifiersAssumption` | source, PDU specific and PDU format are different bits of an identifier, and sources differ in theirs | the layout of an identifier, and the masks of `SniffFilters` |
| `FilesAssumption` | DM1 and FMS1 have different PGNs; an offset and a number of bytes are natural numbers where the description is complete | the two constants of the headers; `parseSPN` reads them as unsigned |
| `UsesAssumption` | the bounds of a use are numbers | they belong to the model |

A theorem with a hypothesis says so in its statement: `AddressesAreUnique`,
`LosslessTransport`, `FaultTolerantTransport` and `SuppressedIsShown` (one page).
Frames and messages of packets may share identifiers in all of them.

What is usually shown by induction over a sequence (`Among`, a list without
duplicates, the positions in a file) is shown by its set form: of the positions at
which a claim fails take the least (`Least`, from `WFMin`), and contradict it.

**AddressClaimer_proofs**

* `TypeCorrect`: `Spec => []TypeOK`. The queue of preferred addresses is never
  empty, so `front()` is defined.
* `ConflictsAreNoticed`: `Spec => []NoSilentConflict` for any number of ECUs,
  NAMEs, preferences and any timing, spurious wakeups included. The invariant adds
  `Unaddressed` (an ECU that is claiming uses no address). The heart is `OneStep`:
  whoever newly occupies an address has just transmitted a claim for it, which
  reaches every running ECU and takes nothing away that was pending there;
  `ReceiveKeepsPending` shows that the frame overwritten in the mailbox has the
  same identifier, hence is a claim for the same address.
* `AddressesAreUnique`: with `Timely` and without spurious wakeups,
  `Spec => []UniqueAddress`. `OneReady` strengthens it to ECUs whose wait is over
  and not only those that use the address: at a `Tick` nothing is pending, so by
  `NoSilentConflict` no two ECUs occupy one address.
* `OnlyStrongerTakes`: `Spec => YieldsToStronger`, an action property, from
  `YieldInv`: every claim in a socket or a mailbox was sent by an ECU that wants the
  address (`Genuine`), an ECU only tries what it prefers, and one that has been
  overruled was so by a NAME that is not larger (`Overruled`).
* `LowestWins`: `Spec => []LowestKeepsFirstChoice`. `FirstChoice` adds what the queue
  of the smallest NAME looks like while it is still claiming; that nobody overrules it
  is `YieldInv` again.

**BamTransport_proofs**

* `TransportTypeCorrect`, `SessionsAreContiguous` from `SessionInv`: the senders
  are within their messages and every open session is a TP.CM followed by TP.DTs
  1, 2, 3... This holds under any loss, abort or stray frame.
* `NothingGetsLost`: `Spec => []NothingMissing`. `LosslessInv` adds `InStep`:
  while nothing is lost, the session of a source is exactly the prefix of the
  frames its sender has put on the bus.
* `FaultTolerantTransport`: if at most one frame is lost (or one `clear()` happens),
  and no transmission was given up before that (`Tolerable`, the constraint of
  `bam_bus`), the transport implements `BamService`. `Sound` says what a receiver has of
  a source: the prefix its sender has put on the bus (`Following`), a session that takes
  no packet any more (`Dead`: the factory threw, or 0 packets were announced), or, after
  a fault, one that waits for a packet the sender has passed or is left over while
  the next TP.CM, which is not lost any more, is still to come (`Behind`). The number of
  aborts, sources, messages and packets is not bounded. `bam_twolosses` is the case that
  is excluded: a session left over, and the TP.CM that would replace it lost.
* `LosslessTransport`, a corollary: without losses (`MaxLost = 0`) the transport implements
  `BamService`, for every number of sources and messages and every size up to 255
  packets. Beyond that size the u8 count never matches, so nothing is delivered.

**CommonCanSender_proofs**

* `SenderTypeCorrect`, `RingsAreUnique`, `CallsAreEffective` from `RingsInv`.
  `UniqueRings` is not inductive alone: `FoundIsCurrent` says that what was
  found without the lock is still right when the lock is taken, because `run()`
  neither moves nor renames a ring. `CallsAreEffective` is an action property.
* `RingsKeepTheirCadence`: `Spec => []Cadence` for any rings, periods, and
  delays. `Steady` relates each timestamp to the schedule: `phase - age` is the
  `Offset` of the frame in its cycle, and the frame is not overdue beyond the delay
  of `run()` in the present pass (`Slack`). `OffsetStep` is the arithmetic of one
  cycle, `TransmittedSteady` shows that the timestamp is never given up while the
  remainder and the delay stay below a frame's period. Without that condition the
  timestamp is given up after the longer period of the last frame, and the ring
  falls behind.

**Listeners_proofs**

* `EveryWantedFrameHandedOn`: `Spec => []HandsOnWanted`. `ListenInv` says that the
  installed filter is the program's, that every receiver `notify` has still to look at
  and `select()` found ready has something to read (`ThreadOK`: nobody else reads from
  it), and `Agrees` for every receiver: what was handed on, is in the callback and
  waits is what arrived, less what the filter takes out. `KernelTranslates` shows that
  the flag and the mask `setFilters` writes make the kernel accept what the filter
  asks for, `UserSpaceFilters` the same for `filter` after the read, and the lemmas on
  `Among` how one frame more or less at either end changes a filtered sequence.
* `SnifferShowsWhatWasSent`: `Spec => []ShownIsSent`, from three invariants. By
  `ListenInv` what a receiver hands on is a filtered part of what arrived. `StreamInv`
  says what that part is like: the frames of a long message come in turn, because the
  three filters ask for its TP.CM and its TP.DTs of the source alike, so that none in
  the middle is missing once the first has come through (`StreamOK`); before the
  filters are there a message may begin anywhere. `SniffInv` says of every source on
  one interface that its session is the prefix of a message up to the frame that was
  handed on last (`Session`, `LastHad`), and that what is in the queue or was shown was
  sent so. `GoesOn` is the step from one to the other: the packet that comes is the one
  the session waits for (`InTurn`, `NextExpected`), and the last one completes the message
  it belongs to.

**GuiReceiver_proofs**

* `SuppressedIsShown`: with one page, `Spec => []UnchangedIsShown`. The invariant
  `Good` follows a cached frame along the way: it is in the cache only if it is about to
  be stored by `onRcv`, is in `rxFrames`, in an answer that waits or on the page, and no
  later one on that way contradicts it (`LastOf` of the answers), unless it is a message
  of packets with the same identifier, which the property excepts; a reset that is still
  to come empties all of them together. `Types` and `NotStarted` say which of the
  threads can be where.

**Senders_proofs**, for any interfaces, frames, tell tales and pages

* `TypesHold`: `Spec => []TypeOK`.
* `SenderIsRefreshed` and `DeleteSilences` from `GuiInv`: a ring has its frame's
  present identifiers, data and period, or the frame has moved away from it while it
  was being sent; no ring belongs to a frame that was taken off the page otherwise.
* `CommandsReachSender` from `CliInv`, the same for j1939Sender, where a ring can be
  shared by frames with the same identifiers; `CliData` has the tell tales.
* `StuckAnswersBounded` from `Accounted`: the answers in the queue are covered by the
  pages with a callback to come, the request at work, and the callbacks lost so far.
* `SerialAnswersFindAsker` from `OneAtATime`: while requests come one by one there is
  at most one request or answer under way, and the callback is that of its page.

**Signals_proofs**

* `GraphShowsHistory`: `Spec => []PointsShowHistory` for any database, frames,
  requests, capacity and clock. `PlusTime`, `MinusTime` and `CompareTime` say what the
  operators of `TimeStamp` compute in microseconds, also for the sum of exactly one
  second that `Plus` does not normalise; `BeginPosRight` and `NextPosRight` that the
  search finds the last sample that is not later. `GraphInv` adds that samples are in the
  order of time and none is later than the clock `onRcv` has read (`Stamped`), that
  the page's session knows a history which has only grown since (`GraphFits`), and that
  the position of the loop is right for its time (`WindowFits`).
* `HistoryFollowsTheBus`: `Spec => []HistoryFollows`, from `KeptInv` for any database:
  `DatabaseOK` says what `parseJsonFile` leaves in the factory, whatever is in the file:
  every prototype is under its PGN and its signals are where their descriptions say.
  `ReceivedFrame` and `DecodedSignals`: what is decoded from equal bytes is equal, and only a
  string can end elsewhere than its prototype. `UnchangedValue` is the heart: what
  `compare()` takes for unchanged has the value of the frame before, unless the signal was
  not complete in one of the two (`missed`). `CacheOK` and `RxOK` carry that along the
  sections of `onRcv`, and through a reset in the middle of them.
* `TypeCorrect`: `Spec => []TypeOK`.

**TRCPlayer_proofs**, for recordings of any length

* `ReplayFollowsRecording`: `Spec => []ReplaysRecording`. `DumperInv`: line `i` of the
  file is the `i`-th recorded frame, up to the insertion at which the file was cut.
  `ReaderInv`: `mCurrentPos` and the last frame read belong together. `CopyInv`: what was
  sent or written is the recording up to there, and at the end all of it; `MillisecondsFacts`
  says that the `u32` keeps a time up to a multiple of the word.
* `KillLosesOneLine` from `DumperInv`, `PositionNamesLast` from `ReaderInv`.
* `ListShowsLatest`: `Spec => []ListIsLatest` from `ListInv`: every identifier sent
  whole is on the list, and every one once, with the frame or the last packet of the
  message that came last under it, except for the one being shown.

Only model-checked, and why:

* the liveness properties `Stabilises`, `AllAddressed`, `RequestRepairs`, `Finishes`,
  `EveryClaimShown`, `MessageShown`, `ShowsUp`, `ResetReturns`, `GraphArrives`, `Ends`:
  fairness and ENABLED are out of the prover's reach;
* `RoundTrip` of `Signals`: that decoding inverts encoding is a statement about what the
  sums over the signals of a frame, with strings of variable length, the bits of numbers
  that share a byte and the groups of trouble codes compute for every input. It needs
  induction over data at each of these.

## 6. Not modelled

Printing, the syntax of JSON and of command lines (what is wrong with a database or
an argument is in the models, how it is written is not), the text of trace files beyond
what decides whether a line is complete, the HTTP side of the backends. ioctl and driver
calls succeed or fail; the Peak driver, the Wireshark dissector with Wireshark's own
reassembly, and the RTS/CTS stub, which has no behaviour, are left out. So is
j1939Decoder: it decodes one line of its input after the other with a reassembler that
`BamTransport` has. No program calls `writeJsonFile`, `deleteSPN` or
`pushFrame`; `copy` is called by the player only, for its list.

The destructor of `AddressClaimer` joins a thread that never ends; no program reaches
it. That the claimer's thread is started in the constructor of its base class is
undefined behaviour of C++ rather than of the protocol. Two application threads in one
sender, and callbacks that call the sender, do not occur in the repository. Two BAM
rings of one source mix their packets on the bus: what a receiver makes of mixed
packets is what `bam_twolosses` shows.

## 7. Plan

All but one of the invariants are proved. What is left is `RoundTrip`: first for a
frame of numbers and states, whose bits are pairwise different, so that what one signal
writes none other disturbs; then for strings, each of which begins where the one before
it ends; then for the groups of four bytes of the trouble codes.
