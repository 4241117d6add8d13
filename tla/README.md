# TLA+ verification of the nRF8001 BLE UART firmware

This project models the firmware under `src/firmware`: a library for a Spark Core that talks to a
Nordic nRF8001 over SPI and offers a UART over Bluetooth Low Energy. The models are checked with
TLC on small instances. With TLAPS the safety properties of every part are proved for every value
of the constants: the queue, the transport, the SPI exchange, the composed system, the mesh gateway,
the library and the layout of its messages.

## 1. The system

| Component | State it keeps | Operations | Interacts with |
|---|---|---|---|
| ACI message queue (`aci_queue.cpp`) | an array of 4 messages, `head`, `tail` (`uint8_t`, taken modulo 4, one slot unused) | init, enqueue, dequeue, peek, is_empty, is_full | called by the transport, two instances |
| ACI transport (`hal_aci_tl.cpp`) | `aci_tx_q`, `aci_rx_q`, the REQN output, the RDYN input | init, send, event_get, event_peek, the private `m_aci_event_check` and `m_aci_spi_transfer`, q_flush | the nRF8001 over SPI; called by the ACI library and the setup routine |
| ACI library (`lib_aci.cpp`) | in `aci_state`: open and closed pipe bitmaps, available and total data credits, connection interval; the advertising pipe bitmap; one message buffer | one function per ACI command; event_get and event_peek, which also follow pipes and credits | the transport; called by the application |
| Device setup (`aci_setup.cpp`) | `setup_offset`, `cmd_status`, a guard counter, all local | `do_aci_setup`, `aci_setup_fill` | the transport, directly and through the library |
| UART application (`uart_aci.cpp`, `nrf8001-ble-uart-spark-io.cpp`) | `setup_required`, `timing_change_done`, the out event | `aci_loop`, control point handling, the public Setup, Loop, NameSet, Tx, and the receive callback | everything above; the user's sketch |
| nRF8001 and BLE peer | device mode, setup progress, link, subscribed pipes, data in the air | executes commands, raises events, restarts | SPI, REQN, RDYN |
| ACI message encoding (`acilib.cpp`) | none | one encoder per command, one decoder per event, two dispatchers | called by the ACI library; the decoders by nobody, the library overlays structs |
| Mesh gateway interface (`rbc_mesh_interface.cpp`) | none | one function per mesh command; event_get | the transport |
| Mesh gateway application (`examples/ble-mesh-cloud.ino`) | `state`, `initState`, `newMessage`, `lastResponse` | `setup`, `loop`, `set_val`, `get_val_req` | the mesh interface, a mesh slave, the cloud |
| Serial example (`examples/nrf8001-ble-uart.ino`) | `serial_buffer`, `msg_length` | reads the serial port, calls Tx and NameSet | UART application |
| Board, service and test tables | none | | |

**How they interact.** There is one host thread. It has no interrupts: `aci_loop` polls, and a
transfer happens inside `hal_aci_tl_event_get` or `hal_aci_tl_event_peek`, when RDYN is low. The
device runs on its own and lowers RDYN when REQN is low or when it has an event. One transfer
carries a command out and an event in, unrelated to each other. The receive callback runs inside
`aci_loop` and may send.

**What is hard here.** The device moves between any two samples of RDYN. Every event reports a
state that may be over by the time it is handled, while commands based on it wait in a queue of
three. A link may break, and the device may restart, with messages queued on both sides. Results
of sends are mostly ignored. The setup sends more messages than the queue holds, its guard counter
may run out with messages in flight, and it is then run again from its first message. The mesh
gateway drives its initialisation by counting messages, and takes any response for the one it waits
for. Lengths and offsets of messages are written down three times: in the encoders and decoders, in
the offsets they use, and in the packed structs that the device and the library read with.

**What makes each part correct.**
- queue: a bounded first-in first-out queue, through any number of rounds of the array;
- transport: two reliable streams, with either queue at its limit; no command left behind without a
  request for a transfer; traffic that never stalls;
- SPI exchange: both messages whole, whatever their two lengths, and no read further behind the
  message to send than the one place that the code allows itself;
- library and application: every data credit in one place, no data on a link that the host does not
  know of, pipes open only with a link, advertising resumed after every loss of a link;
- setup: every message once and in order, never taken for done early, eventually done;
- encoding: every byte the device reads is the byte that was meant, though the buffer is reused, as
  long as the caller keeps to the sizes that the code does not check; both ways to read an event
  agree; copies of received data stay inside their arrays;
- mesh gateway: nothing asked before the slave is initialised, no wait without a cause, each
  response matched to its request, requests served for ever;
- serial example: no size below zero is passed on, in a `uint8_t`, of a line of any length.

## 2. The modules

| Module | Models | How it corresponds to the code |
|---|---|---|
| `AciQueue` | `aci_queue.cpp` | one action per function; `ok` is the return value, `out` the out parameter |
| `BoundedFifo` | what `AciQueue` promises | abstract specification; `AciQueue` refines it |
| `AciTransport` | `hal_aci_tl.cpp` | one action per call; `m_aci_event_check` is a set of state functions (`tx_after`, `rx_after`, `reqn_after`, ...) used by get and peek; the queues are sequences, which is what `BoundedFifo` justifies; the device is reduced to RDYN, an `inbox` and `pending` events |
| `AciLink` | what `AciTransport` promises | abstract specification: two streams, `cmds` and `evts` |
| `SpiTransfer` | `m_aci_spi_transfer` | byte by byte; `AciTransport` takes the whole transfer as one step |
| `Nrf8001` | the device and its peer (external) | commands and events are records whose fields are what the host looks at; one action per command and per thing a peer does |
| `BleUart` | `lib_aci.cpp`, `uart_aci.cpp`, `aci_setup.cpp`, `nrf8001-ble-uart-spark-io.cpp` | composes `AciTransport` (as the instance `T`) with `Nrf8001`; `pc` is the place of the host thread; one action per event handler and per step of `do_aci_setup` |
| `WireFormat` | a message as bytes (`hal_aci_data_t`) | a message is a function from buffer positions to named bytes `<<field, k>>`; so an encoder, a decoder and a packed struct can be compared |
| `AciCodec` | `acilib.cpp` with `aci_protocol_defines.h`, `acilib.h`, and the structs of `aci_cmds.h` and `aci_evts.h` | one definition per function, of the same name; one table per group of offsets |
| `MeshCodec` | the messages of `rbc_mesh_interface.cpp` and `serial_command.h` | the same, for the mesh |
| `AciLibrary` | all the calls of `lib_aci.cpp`, and of `rbc_mesh_interface.cpp` that build a message | one action per call; `msg` is the message built, `asked` what was asked for; the transport may refuse any message |
| `SerialUart` | `nrf8001-ble-uart.ino` on top of `AciLibrary` | one action per line; the buffer is a length |
| `MeshGateway` | `ble-mesh-cloud.ino` | composes `AciTransport` (as `T`) with a mesh slave; `loop` and `poll` are the two halves of `loop()` |
| `AciQueueProofs`, `AciTransportProofs`, `SpiTransferProofs` | | theorems about the three modules of those names |
| `BleUartProofs` | | types, advertising and setup in `BleUart`; the lemmas on its streams |
| `BleLinkProofs` | | the link of `BleUart`, on top of `BleUartProofs` |
| `AciCodecProofs` | | lemmas about `WireFormat`, `AciCodec` and `MeshCodec`: what each encoder and decoder lays out |
| `SerialUartProofs` | | theorems about `SerialUart` with `AciLibrary`, the last of them on top of `AciCodecProofs` |
| `MeshGatewayProofs` | | theorems about `MeshGateway` |

**Step boundaries.** The host is one thread and the device can be seen only through RDYN, which the
host samples in gets and peeks. So a step of `BleUart` is a stretch of code with at most one
transport call. Between two calls of the loop, and in the receive callback, the application may
make any number of Tx and NameSet calls (`AppTx`, `nRF8001BleUartNameSet`).

**What is abstract.** A payload is not modelled, only the length that Tx tests. Of the pipe bitmap
the two transmit pipes that the code asks about are kept. A setup message is its index. The Command
Response of a command keeps its opcode and status. `uart_rts_local` is left out: nothing reads it.
Debug printing is left out. The device never raises more than `MaxPending` events on its own behind
unsent ones, but always has room for the response to a command.

In `AciLibrary` and `SerialUart` the value of a parameter is not modelled, only which byte of it is
where. `MeshGateway` and `BleUart` go the other way: a message is one value and its timing matters.
`MeshGateway` drops the payload and the status of a response: the code prints the status and goes on
in the same way. A line of `SerialUart` is one step because nothing reads the buffer before its end;
the credits that `nRF8001BleUartTx` tests are those of `BleUart` and are chosen freely here.

The configurations instantiate the modules directly. All constants have ordinary values, so no
separate model-checking module is needed.

## 3. The runs

| Run | Constants | What it checks |
|---|---|---|
| `aci_queue` | size 4, two messages | `TypeOK`, `RefinesFifo`: the array is a first-in first-out queue of 3 |
| `transport` | size 4, two commands and an oversized one, two events | `TypeOK`, `NoLostWakeup`, `RefinesLink`; under fairness `CommandsMove`, `EventsMove` |
| `spi` | the real packet size, every pair of lengths 0..31 | `CommandDelivered`, `EventReceived`, `NoSpareClock`, `ReadsBeyondBuffer` |
| `ble_link` | OTP setup, 2 credits, application calling Tx and NameSet at will | `CreditConservation`, `NoStrayData`, `PipesNeedLink` |
| `ble_reconnect` | OTP setup, one hardware fault, NameSet at will | `ConnectIsQueued`; under fairness `AdvertisesAgain` |
| `ble_setup` | setup from RAM with 5 messages through a queue of 2, Tx at will | `SetupInOrder`, `ConnectIsQueued`; under fairness `SetupCompletes`, `AdvertisesAgain` |
| `ble_retry` | setup from RAM with 4 messages through a queue of 2, the guard counter may run out at any time, NameSet at will | `SetupDoneMeansLoaded` |
| `library` | the pipes of `services.h` and five remote ones; data sizes around the limits of the code; lines of 1..32 characters | `EncodesCommand`, `DecodesAsStruct`, `CopyFits`: bytes and structs agree; `AdvPipesKept`, `IntervalInMs` |
| `mesh` | queue size 4, values change once the slave is set up | `RequestsAfterInit`, `WaitingHasCause`, `ResponseMatches`; under fairness `GatewayServes` |

Three runs show that something the repository says of the program does not hold (section 6):
`ble_disconnect`, `ble_hw_fault`, `mesh_early`.

**With the setup in OTP memory, or in RAM.** `uart_aci.cpp:25-34` includes a `services.h` with 34
setup messages: as shipped, the device starts in setup mode and the host loads the setup after each
reset. A comment there names the other way, `services_lock.h`: the setup is put in OTP memory once,
and the device starts in standby from then on. `OtpSetup` chooses. What restarts advertising is
claimed for both, but in the build with RAM only for a setup that nothing comes between: no name set
by the application, no guard counter that runs out, no fault so far (`QuietSetup`). The condition is
part of `ConnectIsQueued`, `AdvertisesAgain`, `SetupInOrder` and `SetupCompletes`. `ble_reconnect`
is the OTP build with faults and names, `ble_setup` the RAM build with its condition. The condition
is needed (section 6).

**Bounds, and why they are enough.**
- `ACI_QUEUE_SIZE = 4` is the value in the code: full queues, wrap-around and refusals all happen.
  `ble_retry` and `ble_setup` use 3: with names, or links, on top of the setup the larger queue has
  ten times as many states, and two places are enough for a setup message and a foreign command to
  share it and for the filling to stop more than once.
- `MaxInbox = 1`: the device asks for no transfer while it holds an unexecuted command. A larger
  inbox would lengthen the stream of commands, by what the queue of three already adds to it.
- `MaxPending = 1` or `2`: two unsent events are enough for one to be overtaken by a change of
  state. The queue on the host adds three more.
- `Credits = 1` or `2`: two is the least for which one credit can be in flight and another in use.
- `NUM_SETUP = 4` or `5`, above the 2 that the queue then holds, so filling stops and resumes, once and
  more than once.
- `MaxFaults = 1`: one fault in the middle of anything; it is 0 where the code makes no promise
  after a fault (`ble_hw_fault` shows why) and in `ble_setup`, whose condition excludes one.
- `AppCalls` says which calls the application makes. `ble_setup` has only Tx, which needs a link, so
  that `SetupInOrder` can say exactly what is on its way; `ble_retry` has NameSet.
- `Sizes` holds 0, the largest sizes that Tx (20), the receive pipe (22, so 21 and 27), the value of
  the mesh (28), the echo, the chunk of dynamic data and the echo of the mesh (29, so 30) and the
  checks of the mesh interface (36) tell apart, and one, 254, for which the length of dynamic
  data begins at 0 again: sizes between two limits are treated alike.
- `Intervals` holds 7 and 3199, near the ends of the range of the specification (6 to 3200), neither a
  multiple of four, so the milliseconds are rounded; the product of the larger one with 125 leaves 16
  bits. `IntervalIsExact` proves the rest.
- `MaxPending = 3` in `mesh`: a response, a changed value and one more in front of it.
- `QuietInit`: `TRUE` says that no node changes a value before the slave is set up. The mesh has no
  such rule; `mesh_early` is the run without it. Of the safety properties only `ResponseMatches`
  needs it. For `RequestsAfterInit` the run with `QuietInit` leaves out events that come between the
  responses of the initialisation; the theorem `InitialisedFirst` has no such hypothesis and covers
  them.

**Fairness.** `loop()` of a Spark program runs for ever and calls `nRF8001BleUartLoop`, so `Host` is
weakly fair, and so is the get in `AciTransport`. The device executes commands, boots, and lowers
RDYN when it has a reason to; so does the mesh slave, and `loop` and `poll` of the gateway are
weakly fair for the same reason as `Host`. Requests of the cloud are not fair. Peers owe nothing:
they need not connect, subscribe, acknowledge or stay. `SetupCompletes` is checked with
`SetupTimeout = FALSE`, since a guard counter that always runs out first really does prevent it.

Deadlock checking is off in `spi` only: a finished transfer has nothing left to do.

## 4. The proofs

Assumptions are those on the constants, stated in the modules: a queue of 2 to 255 slots, packet
lengths in a byte, at least one setup message and one credit. Nothing else is assumed. The
messages may be any sets.

- **`AciQueueProofs`**: `TypeCorrect` and `Refinement`. The abstract queue is the stretch of slots
  from `head` to `tail`, of length `Distance(head, tail)`. The lemmas say what each operation does
  to that stretch, including the wrap-around.
- **`AciTransportProofs`**: `TypeCorrect`, `WakeupNeverLost` and `Refinement`
  (`Spec => RefinesLink`). The refinement maps `cmds` to `inbox \o aci_tx_q` and `evts` to
  `aci_rx_q \o pending`. The main lemma, `CheckKeepsStreams`, shows that a transfer leaves both
  concatenations unchanged. `WakeupNeverLost` turns on `GetSignalsRoom`: a get leaves REQN low
  whenever commands wait.
- **`SpiTransferProofs`**: `TypeCorrect`; `Inductive` states how far the exchange has come after
  each byte. `CommandAlwaysDelivered`, `EventAlwaysReceived` and `NeverASpareClock` follow at the end.
  `TypeCorrect` lets the sending index leave the buffer, as the code does; `ReadsAtMostOneBeyond` says
  when, by how much, and that the command is out by then.
- **`BleUartProofs`**: the composed system, with any application, queue size, number of credits and
  number of setup messages.
  - `TypeCorrect` needs `WellTyped`: while an event is handled, the out parameter holds one. Every
    step of the host is shown to be a step of `AciTransport` (`LineStep`), so the transport's own
    lemmas apply through an instance of its proof module. What a send, a get and a command of the
    device do to the streams `Commands` and `Events` is stated once (`SendStream`, `GetStream`,
    `ExecuteStream`, `RaiseStream`) and used for the setup and in `BleLinkProofs`.
  - `ConnectAlwaysQueued` is about both builds. It rests on `Operating`: outside the setup the event
    queue is empty between two gets, so each handler runs right after a transfer, and that transfer
    took a command out of the queue. With the setup in OTP memory `Operating` always holds. With the
    setup in RAM it is the last of the phases below; in the one before it, `Restarting`, Device
    Started may already wait on the host, but with no name set the command queue is empty then.
  - `SetupDoneIsTrue` has no hypothesis. `SetupDoneMeansLoaded` is not inductive; `Honest` adds that,
    until the last setup message is accepted, no event on its way, in the hands of the host or
    remembered in `cmd_status` says that it was.
  - `SetupKeepsOrder` goes through five phases (`Phases`: `Waiting`, `Told`, `Running`, `Restarting`,
    `Operating`). The hard part is `Answers`: while the routine runs, the events on their way are one
    "continue" for each message executed and not yet answered for, and a "complete" stands in front
    of any new Device Started. `SetupInOrder` speaks of a setup that nothing disturbs
    (`QuietSetup`): no name set, since that puts a foreign command among the messages; no guard
    counter that runs out, since a retry starts again at the first message with others in flight; and
    no fault so far, since after one in the middle a handler of the restarted device begins a second
    setup, at offset 0, of a device that has all of it. TLC finds each of these. Data is no
    disturbance: no pipe is open yet, and Tx is refused.
- **`BleLinkProofs`**: `PipesAreBacked`, `NoDataAstray` and `CreditsConserved`, for a device that has
  not had a hardware fault (`faults = 0 => ...`; after one, credits and pipes of the lost link are
  kept, finding 2, and the statements are false). A step is first reduced to its effect on the two
  streams, the credits and the pipes (`Effect`), so that each part of the invariant is proved
  against thirteen short effects rather than against the handlers. The invariant is `Flow`:
  - `OneToken`: there is at most one of a device that could advertise, a connect command, and an
    event that will lead to one. Without it a second advertising command could start a link behind
    data of the first;
  - `PipesFollow`: open pipes, and news of a link, end with the news that it broke;
  - `DataBehind` and `NewLink`: a connect command, an advertising device and a link the host has not
    heard of come with no data queued for them, so data never reaches the wrong link;
  - `Announced`: the total was read before the first link;
  - `Counted`: the sum itself. It holds as an equation only on a link the host knows of; between two
    links it is bounded by the total, and by twice the total while Connected and the credits of the
    former link are both under way.
  The sums over queues (`PacketsQueued`, `CreditsReturning`) are defined by cardinality, as the
  number of pairs of a position and a unit at that position. So the lemmas on one message more and
  one message less need no induction.
- **`MeshGatewayProofs`**: `TypeCorrect`, `InitialisedFirst`, `WaitsForSomething`, and, with
  `QuietInit`, `ResponsesMatch` (an action property) and `QuietInitAlternates`.
  `InitFirst` ties `initState` to the commands on their way and to what the slave has done, and
  says why no send of the initialisation is refused although nobody looks: each follows a poll whose
  transfer took a command away. `WaitingHasCause` is inductive by itself. `ResponsesMatch` needs
  `OneAtATime`: of the command, its response and the turn of the gateway exactly one exists at a
  time. `QuietInit` is the hypothesis under which it holds; finding 3 is what happens without it.
- **`AciCodecProofs`**: that the offsets of `acilib.cpp` are the places of the fields in the packed
  structs of `aci_cmds.h`, `aci_evts.h` and `serial_command.h`. It holds lemmas only; the theorems are
  in `SerialUartProofs`.
  - The bytes of a struct are a concatenation, recursive over its fields, and induction is not
    available. Instead `Smallest` gives the least size for which a statement fails (from the
    library's `WFMin`, since `<` is well founded on the naturals), and the statement is shown for it
    from the size before. So the recursive function of `FlattenSeq` exists and is unique
    (`JoinExists`, `JoinUnique`), and an element more at the end adds its bytes at the end
    (`FlattenAppend`, `StructAppend`). A struct in a struct gives the bytes of both (`StructConcat`).
  - `Lays(at, fs, L)`: the stores `at` put the fields `fs` in the first `L` positions. `LaysNext` adds
    one field, and `One` to `Six` are messages of that many fields, of any widths.
  - Each encoder and decoder is then a list of its fields, each at the sum of the widths before it
    (`Writes...`, `Reads...`). A Command Response is read as its two leading bytes with another
    struct behind (`LaysConcat`).
- **`SerialUartProofs`**, for every pipe map, every size of data in a byte, every line, and any
  sequence of calls and refusals by the transport:
  - `AdvPipesAreKept` is inductive with `StaysAsked`: a pipe wanted is still in the static bitmap, so
    the next message has it again. `IntervalIsExact` holds for every interval up to 3200.
  - `CommandsAreEncoded`: `EncodesCommand` speaks of the message of the last call, so each call
    establishes it, from the lemma on its encoder. What the calls have in common is `Offer`
    (`OfferEncodes`); what is left is that each call names the struct of the opcode that its encoder
    stores, and that the message is no longer than the transport lets pass. Four calls check no size
    or too large a one; of these it speaks up to the size of the array they copy to (`Heeds`).
  - `EventsAreDecoded` and `CopiesFit` are proved together (`EventsAreRead`), from what a decoder
    reads: exactly the fields of the struct (`DecodesAsStruct`), none behind the end of its array
    (`CopyFits`). Dynamic data is the one case where it reads more than the struct has
    (`DynamicResponse`), and there the array still has room.
  - `SerialTypes` has no such condition: for every size the length of a message fits its byte, that of
    dynamic data because it begins at 0 again. Of a line it says that the size passed on is never
    below zero, which in the `uint8_t` of the code would be a large one.

**Only model-checked**, and why:
- everything under fairness (`CommandsMove`, `EventsMove`, `AdvertisesAgain`, `SetupCompletes`,
  `GatewayServes`): TLAPS does not prove liveness under fairness;
- the findings, which are counterexamples.

## 5. What is not modelled, and why

- Getters of one field (`lib_aci_get_cx_interval`, `lib_aci_get_slave_latency`,
  `lib_aci_get_nb_available_credits`), `rbc_mesh_radio_reset`, which only calls
  `lib_aci_radio_reset`, and all printing.
- What a call overwrites that is given more data than its array holds. `lib_aci_write_dynamic_data`
  (29 bytes) and `lib_aci_set_key` (16, and a passkey is always sent with 6) check no size;
  `rbc_mesh_echo` and `rbc_mesh_value_set` check against 36, with arrays of 29 and 28 and a message
  buffer of 38, which a value of 36 exceeds by one. These calls are made with every size, and the
  length they give the message is modelled (it decides whether the transport takes it, and begins
  at 0 again for dynamic data of 254 bytes), but what lies behind the buffer is not, and nothing is
  claimed of the bytes of such a message: `Heeds` is the contract under which `EncodesCommand` speaks.
- The default branch of `acil_encode_cmd_set_key` (`acilib.cpp:290`), which gives a key length 0 and
  copies two bytes less than that: `aci_key_type_t` has only the two values of the other branches
  (`aci.h:453-454`).
- What `rbc_mesh_evt_get` copies behind the message: `sizeof(serial_evt_t)`, 40 bytes, out of a
  `hal_aci_data_t` that has 38 in `rbc_mesh_interface.cpp` and 32 in `hal_aci_tl.cpp`, which fills it.
  The gateway looks at the first bytes only. It is modelled as a plain get.
- A mesh slave that restarts after its initialisation: the gateway does not look at Device Started
  then, and has no recovery to state a property of.
- `boards.h`, `hal_platform.h`, `services_lock.h`, `dtm.h`, `ble_assert.h`: tables and macros.
- The SPI electrical timing and the delays of `hal_aci_tl_init`.

## 6. Findings

1. `ble_disconnect`: `lib_aci.cpp:257` says "Update pipes immediately so that while the disconnect
   is happening, the application can't attempt sending another message". A Pipe Status event that
   was already on its way opens them again.
2. `ble_hw_fault`: `aci.h:37` says credits "are used only after the 'ACI Connected Event' is sent".
   After a hardware fault the pipes and credits of the lost link are kept, and used.
3. `mesh_early`: `ble-mesh-cloud.ino:110` says "alternating sending of commands and waiting for
   response". The initialisation goes on with any message (line 138). If a node changes a value in
   between, a command leaves before the response to the one before it. One response is then still to
   come when the gateway is ready, and the first request takes it for its own answer.

Seen while modelling, and not made into runs:
- Of a start in standby `uart_aci.cpp:177` says "Looking for an iPhone by sending radio
  advertisements", and line 188 prints "Advertising started". The result of the `lib_aci_connect`
  between them is not looked at. After a setup from RAM, the one that is shipped, the transfer that
  takes the last response off the queue can already fetch Device Started. The application can set
  names until the command queue is full before it is handled. The get that returns it then has no
  reason to make a transfer, the connect is dropped, and the device stays in standby. (TLC finds it
  as a violation of `ConnectFits` with `OtpSetup = FALSE`, `NUM_SETUP = 2`, `AppCalls = {"name"}` and
  the other constants of `ble_reconnect`, without a fault.)
- `lib_aci.cpp:151` says "the connection interval is given in multiples of 0.125 milliseconds". The
  code reckons with 1.25, and so do `lib_aci.h:94`, `lib_aci.h:150` and `aci_evts.h:233`: the comment
  is wrong. `IntervalInMs` takes the unit of the others and so contradicts it.
- `nrf8001-ble-uart-spark-io.cpp:37-38` says of the newline in the serial monitor "(The newline is
  also sent over the air)". `handle_serial_input` leaves the last character of a line out
  (`examples/nrf8001-ble-uart.ino:136`): it is never sent.
- `rbc_mesh_interface.cpp:22` says "Must predefine the max length, at is larger than the one used for
  nRF8001", and lets 36 bytes of data through. Its definition is that of one file: the transport is
  compiled with 31 and refuses (`hal_aci_tl.cpp:300`) what the mesh interface accepts, from 31 bytes of
  an echo or 30 of a value. The arrays of `serial_command.h` have 29 and 28.
- `uart_aci.cpp:238` builds the 22 characters "Spark Core says hello!" and line 240 prints
  "Sending: ", but `lib_aci_send_data` refuses more than 20 bytes (`lib_aci.cpp:330`), and the result
  is ignored. The greeting is never sent.
- `aci.h:46` says "the next command shall not be sent until after a response for the command sent
  has arrived". `m_aci_event_check` sends whatever is queued.
- `acilib_if.h:306` promises a result of `acil_encode_cmd`; it always returns false. It encodes a
  change of timing with its four parameters whatever its length says. `acil_decode_evt` does not
  know the echo event.
- A response with dynamic data makes its decoder copy one byte more than the device sent: the
  sequence number is not subtracted (`acilib.cpp:432`). The byte is inside the buffer of the event
  and the array has room for it (`CopyFits`).
- `lib_aci.h:46` says that `hal_aci_evt_t` has "Same size as a hal_aci_data_t". It has 34 bytes, the
  other one 33; the last byte of the longest event is never filled, and no event uses it.
- A pipe added by a refused `lib_aci_open_adv_pipe` stays in the static bitmap, and is opened with
  the next command that is accepted. `AdvPipesKept` speaks of the other direction only.
- The serial example drops the 32nd character of a long line and sends what follows as a line of its
  own; a line of more than 20 characters is not sent at all, and an empty one is sent as an empty
  packet. `handle_serial_input` looks at none of the results.
- After `set_val` the gateway saves a byte of a response that has none (`lastResponse`), and it
  treats an error status like success.
- `hal_aci_tl.cpp:97` speaks of "only if there is room in the event receive queue", but the room is
  tested before the received event is stored. It is harmless: the next transfer tests again
  (`RefinesLink`). For the same test, at line 71, the `while(1)` at line 106 is unreachable; that
  follows from the two conditions alone, so no property is made of it.
- `lib_aci.h:369-370` says that `lib_aci_send_data` memorizes credit use and checks for credits;
  `lib_aci.cpp:318-342` does neither. The application does.
- `aci.h:43` says that unused credits expire when a link ends; `lib_aci.cpp:526` sets them to the
  total. No pipe is open then, so they are not used.
- If the last setup response comes after the guard counter ran out, `aci_loop` takes it as an
  ordinary response, `setup_required` stays TRUE, and the setup is retried for ever against a
  configured device.
- The longest event makes `m_aci_spi_transfer` clock out one byte beyond `data_to_send`. It is
  filler, and the device ignores it (`ReadsBeyondBuffer`).

## 7. Plan

Done: every component that has behaviour, and a proof of every safety property of a passing run
(section 4).

Left: `SetupInOrder` with names set in between, stated of the setup messages among the commands;
what of `ConnectIsQueued` holds then, once the first connect is out; and, with a tool for it, the
properties under fairness.
