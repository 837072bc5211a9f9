# Verification of the desktop_cube firmware

desktop_cube is the firmware of an ESP32: a Bluetooth loudspeaker (A2DP sink with AVRCP) that also shows time, weather
and battery charge on a serial display. This directory holds TLA+ models of its parts, the TLC runs that check them on
small instances, and TLAPS proofs of what matters most for every instance. Everything here is translated from
`src/main/*.c`; the ESP-IDF (FreeRTOS, Bluedroid, the drivers, the HTTP client) is modelled only as far as the code
in `src/main` uses it.

Check a run with `tlc -config <cfg> <module>` and a proof with `tlapm <module>.tla`; PROJECT.json says which cfg
belongs to which module, and which lines every definition models.

## 1. Inventory

The program is a handful of tasks on two cores, tied together by one ring buffer, one message queue, several
static variables without locks, and one serial line.

    phone ~~> Bluedroid (BTC task) --data callback--> ring buffer --> I2S task --> DMA, loudspeaker
                   |                                     ^              ^
                   | event callbacks                     | creates, destroys (start-up, shut-down)
                   v                                     |              |
              work queue (10 messages) -----------> application task ---+--> I2S driver, scan mode, AVRCP commands
                                                                             (calls back into the BTC task's queue)
    server ~~> HTTP client --events--> time task, weather task --> RTC     clock task, battery task, weather task
                                                                                   '--> UART --> display

| Component | State | Operations | Hard behaviour | Correct when | Module |
|---|---|---|---|---|---|
| Audio path, `bt_app_core.c` 122-160, 223-290 | `ringbuffer_mode`, ring, write semaphore, the task | data callback, I2S task, start-up, shut-down | three tasks, no lock; partial creation; deletion under a running callback | no task without ring and semaphore; playback starts on a full prefetch and stops on an empty ring only; it always starts again | AudioRing, AudioPipe, AudioSession |
| Work queue, `bt_app_core.c` 67-120, 168-221, `bt_app_av.c` 101-113 | queue, messages and the heap blocks they carry | dispatch, send with a timeout of 10 ms, receive, handle, free | failing allocation, full queue, two tasks that wait for each other's queue | in order, once each; no use after free; no leak; nobody waits for ever | WorkQueue, EventQueue |
| A2DP connection, `bt_app_av.c` 194-249, 295-447, 611-647 | I2S channel, scan mode, audio session | `bt_app_a2d_cb`, `bt_av_hdl_a2d_evt`, driver installation, reconfiguration, removal | the handler lags behind the link; a report may be dropped; the channel is deleted under the I2S task | no `ESP_ERROR_CHECK` fails; device, driver and task end up as the link calls for | A2dpSink, AudioSession |
| AVRCP controller, `bt_app_av.c` 116-191, 450-526, 656-675 | `s_avrc_peer_rn_cap`, outstanding registrations | ask for capabilities, register, register again after each notification | answers of one phone handled when the next is there; one-shot registrations | the record is never of an earlier phone; no registration chain breaks | AvrcpController |
| AVRCP target, `bt_app_av.c` 252-290, 529-608, 684-700 | `s_vcs_task_hdl`, `s_volume`, `s_volume_notify` | simulation task, volume set by the phone, request to be told of changes | a handle that is never cleared; a failed creation | one task per connection, each deleted once; the last volume wins | AvrcpTarget |
| HTTP requests, `get_time_and_weather.c`, `main.c` 238-257 | static `output_len`, one buffer per request | two requests, one event handler | requests that overlap, interrupted anywhere; responses longer than the buffer; failures | a response is whole or cut off at the buffer's end; the NUL stays | HttpFetch |
| Display, `main.c` 264-413, `myuart.c` | the serial line and what the display has collected | clock, battery and weather instructions, number conversion | an instruction is three calls, tasks on both cores | damage stays within instructions that met; numbers fit | UartDisplay |
| Battery, `main.c` 333-413, `myadc.c` | calibration, done or not | set-up, voltage divider, charge table | every way the ADC aborts the program; boundaries of the table | feeds the display or restarts | UartDisplay, Boot |
| Start-up, `main.c` 185-227, 429-530, `myuart.c` 17-34 | how far `app_main` has come, what is set up, the five tasks | `app_main`, `bt_av_hdl_stack_evt` | calls that abort, return early or fail unnoticed; a handler that runs while `app_main` goes on; restart at any moment | nothing is used before its set-up; a phone that finds the device is heard; the start ends | Boot |
| GAP callback, `main.c` 114-182 | none | answer to a phone that asks to compare a number | the callback must be registered when the phone asks | every request is answered | Boot |
| Wi-Fi, `main.c` 503-505 | none | `example_connect`, a component of ESP-IDF | it may abort or wait for ever | its outcomes only | Boot |
| `bt_app_dev_cb`, configuration, build output, documents | - | - | - | - | not modelled |

PROJECT.json lists the hazards of this code at the lines where they bite, with the properties that cover them.

## 2. Modules

Every module states its variables, one action per step of the code, a type invariant and its properties; the comment
on an action names the code where it is not obvious. Operators marked *Variant* are plausible mistakes. They are not
part of the specification; substituted for the definition they follow, each breaks a property, which shows that
the property depends on the code.

**AudioRing** (three actors). `write_pc`, `i2s_pc` and `app_pc` are the places in `write_ringbuf`,
`bt_i2s_task_handler` and `bt_i2s_task_start_up`/`_shut_down`. Each read or write of the mode, each call on the ring or
the semaphore is a step. `items_waiting` is what `vRingbufferGetInfo` reports; `item_held` keeps its space until it is
returned. Every creation may fail. A call on a NULL handle fails an assertion and restarts the chip (`WritePanic`).
A data callback may outlive its session and meet the next one, with whatever it has read of the mode and of the level. `overtaken`
remembers, until the next start-up, that a start-up has found it between its measure of the prefetch and its give: the one case in
which playback may start too early.

**AudioSession** composes A2dpSink with AudioRing (`Ring == INSTANCE AudioRing WITH i2s_pc <- task, app_pc <- call`). The
handler's start-up and shut-down, one step each in A2dpSink, are AudioRing's steps here; data arrives from the moment the
link is up, however far the handler lags; each call of `i2s_channel_write` is one of the I2S task of the ring. Reports may be dropped here
too; only when both a CONNECTING and a DISCONNECTED are, which may leave two I2S tasks on one ring, is the case left to A2dpSink
(`OneRing` is the bound, and theorem OneTaskOnly says that it is the right one). `stale` remembers that the link has gone down under the
data callback, `refused` that memory for the session was refused, `unheard` that the report of the present connection was dropped.

**AudioPipe** is the abstract specification of the audio path: a store that fills, plays and closes, without tasks,
modes or semaphore. `early` says that a store was opened while a delivery to the last one was under way, whose measure may count for the
new one. `PipePhase` in AudioRing is the refinement mapping; the level is what waits plus what is held, `early` is `overtaken`.

**EventQueue** is the abstract specification of the hand-over: a *set* of accepted events, of which the oldest is taken next. It
has no memory, no order of insertion and no capacity. WorkQueue implements it (`ImplementsEvents`): that order, single
handling and the fate of refused events follow from the sequence, the copies and the time-out is what the refinement shows.

**WorkQueue**. `dispatch_pc` follows a callback in the BTC task through `bt_app_alloc_meta_buffer`,
`bt_app_work_dispatch` and `bt_app_send_msg`, `app_pc` the application task through `bt_app_task_handler`. `heap`
holds the live blocks that messages carry (the copied parameter and, for metadata, the text). A handler makes up to
`MaxCalls` calls into the stack, each of which waits for room in the BTC task's own queue (`btc_backlog`): that closes
the circle of the two tasks.

**A2dpSink**. The stack moves `link` and reports each move through `queue`, of which the handler is behind by up to
`QUEUE_LENGTH` reports. Each driver call of the handler is a step (`install`, `hide`, `startUp`, `reconfDisable`, ...), and
the I2S task may be inside `i2s_channel_write` meanwhile. A failing `ESP_ERROR_CHECK`, a use of a deleted channel, data
before the ring exists: all restart the chip. `lost` collects the reports on which the handler acts (CONNECTING, CONNECTED,
DISCONNECTED) and that have been dropped; every property names those it does not survive.

**AvrcpController** and **AvrcpTarget** have the same shape: link, queue of reports, handler. The controller also has the
phone, which answers capability and registration commands and notifies each registration once. Any report may be dropped. In the
target `unheard` says that the report of the last volume was, `missed` that the device does not know of a connection (its report was
dropped, or its task could not be created), and `left` counts the disconnections dropped before anything was missed. `tasks` are the simulation tasks that run; the handle keeps the value of
the task it has deleted, as in the code, and such a handle may come back with a later task. In the controller `lost` says that a report of
the present connection has been dropped ("now") or one of an earlier connection whose traces are not yet gone ("before"):
the answer to a later connection makes good what the drop has damaged.

**HttpFetch**. Two tasks on one core; the time task has the higher priority and interrupts the weather task anywhere,
even between the reading of `output_len`, the copy and the storing of the sum, but is not itself interrupted within an
event. A byte is its position in the response, so that misplaced and missing bytes show.

**Boot** extends HttpFetch with the start of the device. `main_pc` goes through the calls of `app_main`, each of which fails the
way it can: `ESP_ERROR_CHECK` aborts and restarts the chip, an early return leaves a device without Bluetooth, or nobody
notices (a task that is not created). Meanwhile `app`, the application task, goes through `bt_av_hdl_stack_evt`, a phone may ask to be
paired, the ADC task sets up its converter and may abort, the two requests run, and power may fail.

**UartDisplay**. Three senders, each string of an instruction a step; the display collects until a terminator. The
battery table and the length of what `itoa` writes are operators.

**AudioRingProofs, WorkQueueProofs, A2dpSinkProofs, AvrcpControllerProofs, AvrcpTargetProofs, BootProofs,
AudioSessionProofs** and **UartDisplayProofs** hold the theorems (section 5); the **MC** modules give TLC the constants.

How they fit together: WorkQueue has the queue in detail; A2dpSink, AvrcpController and AvrcpTarget take from it what it
shows (messages are handled in order, once each, or dropped: EventQueue) and use a plain sequence. A2dpSink has start-up and
shut-down of the audio session as one step each, AudioRing has the session in detail and takes for granted that sessions follow
each other; AudioSession puts the two together and shows that it may. HttpFetch presumes that its tasks exist; Boot creates
them and implements HttpFetch.

### Abstractions that need a word

- `vTaskDelete` takes effect at once. A task on the other core may run on for a few instructions; what it could touch then is
  a deleted object, which the models count as a restart where they have it (`I2sCrashes`).
- A handle that has been deleted and not yet set to NULL counts as NULL: both end in a panic.
- `i2s_channel_disable` takes the channel out of service first and then waits for a write in progress.
- A panic is a restart: every variable returns to power-on. A double free or a second deletion of a task is
  undefined; the models take the restart.
- `output_len` is read once for `copy_len` and for the address of the copy. The build uses `-Og`
  (`CONFIG_COMPILER_OPTIMIZATION_DEBUG`), and no call stands between the two reads; for the addition it may be read again or kept, and
  the model has both.
- `s_volume_lock` is taken by one task only; `s_audio_state` and `s_pkt_cnt` are written for log lines. None is
  modelled.
- A write to an I2S channel that is not enabled may be refused or, its time-out being `portMAX_DELAY`, wait until the channel is. Nothing is
  written in either case: A2dpSink has the write begin when the channel is in service or gone, AudioSession has the refusal (`OutputRefused`) as
  a step that may or may not be taken.
- `uart_init` does not look at the result of `uart_driver_install`, and neither does anybody else: "set up" means that the call has
  been made. What is sent to a UART without a driver is lost; that display is not modelled.
- The parsing of a JSON text either succeeds or panics; any damaged text may do either.

## 3. Runs

| Run | Module, cfg | Bounds | Shows |
|---|---|---|---|
| ring | MCAudioRing, AudioRing.cfg | ring 8, mark 5, items up to 2, packets 1-3 | NoDangling, GiveNeverFails, PrefetchingMeansWaiting, StallsOnlyByLostMode, ImplementsPipe; PlaybackStarts under fairness |
| session | MCAudioSession, AudioSession.cfg | ring 3, mark 2, items up to 2, packets of 1, queue of 2, drops | DataFindsRing, SessionSettled, ImplementsRing; SessionEnds under fairness |
| ring_stall | MCAudioRing, AudioRingWorking.cfg | as ring | **violation** of WorkingModesWork |
| queue | MCWorkQueue, WorkQueue.cfg | two slots in either queue, 5 events, 2 calls per handler | OwnedIsLive, LeaksOnlyRefused, ImplementsEvents; DispatchReturns, QueuedIsHandled under fairness |
| queue_leak | MCWorkQueue, WorkQueueLeak.cfg | the same | **violation** of NoLeak |
| sink | MCA2dpSink, A2dpSink.cfg | queue of 4, any report may be dropped | ChecksPass, Settled, AstrayOnlyInShutDown; DiscoverableAgain under fairness |
| controller | MCAvrcpController, AvrcpController.cfg | two phones that share one event, queue of 3, any report may be dropped | CapabilitiesCurrent, ChainKept; Registered under fairness |
| target | MCAvrcpTarget, AvrcpTarget.cfg | two volumes, queue of 4, up to 3 tasks, drops and failures | Settled, DeletesTheTask; finding 5 |
| boot | MCBoot, Boot.cfg | buffer of 2, responses of 1 and 3, pieces up to 2 | HeardFromTheFirst, SetUpBeforeUse, IntactUnlessOverlap, LastByteKept; BootCompletes, PairingAnswered under fairness |
| fetch_shared | MCHttpFetch, HttpFetchShared.cfg | buffer of 4, responses of 3 and 5, pieces up to 3 | **violation** of ResponseIntact |
| display | MCUartDisplay, UartDisplay.cfg | three senders, voltages on both sides of thresholds, numbers of one and two digits | Recovers, OnlyTornLost |
| display_num | MCUartDisplay, UartDisplayNum.cfg | the battery alone, up to a full one | **violation** of NumFits |

Each passing run also checks the type invariant of its module, which bounds the ring and the queues.

### Why the bounds are enough

- *Ring*: 32 KiB, mark at 20 KiB, items of 1440 bytes in the code. With 8, 5 and 2 the ring overflows with and without space
  to spare, an item is smaller than a packet and larger, several packets make a prefetch, and a packet still fits above the
  mark (`PacketAssumption`, true of the code: 12 KiB against about 4 KiB). The safety properties are proved for every size.
- *Queues*: 10 messages in the code. Two slots make both queues fill while the other task waits, which is all the circular wait
  needs; five events are one in each holder and one that is refused. Safety is proved for every length.
- *Session*: with 3, 2 and packets of one unit the ring still overflows, starves and makes a prefetch of two packets;
  the larger ring is that of run ring. A queue of two, with the report the handler is dealing with, holds the end of a connection and the
  beginning of the next, so that the handler may start a session for a link that is gone. Safety is proved for every length and size.
- *Target*: a queue of four holds the reports of two connections; three tasks are one that runs and two that dropped disconnections have
  left behind. The handles are interchangeable, and the run, which has invariants only, uses that as a symmetry. Proved for every bound.
- *Connection*: a queue of four holds a whole connection that the handler has not seen yet, so that it may be one whole
  connection behind. Safety is proved for every length.
- *Phones*: a record can be wrong in no more interesting way than being that of the other of two phones; a shared event
  makes it neither empty nor right. Safety is proved for every set of phones and of events.
- *Buffer*: 4096 bytes in the code. Four bytes, responses of three and five in pieces of one to three give
  responses that fit, that are cut off in the middle of a piece, and pieces after the buffer is full. Run boot, where the requests
  are interleaved with the start of everything else, has a buffer of two, one response that fits and one that is cut off in the
  middle of a piece. Proved for every size, and for every start (BootFetchCorrect).
- *Display*: one of each kind of instruction would do; the tasks send all they send in a round. Recovers and OnlyTornLost
  are proved for every set of senders and of numbers.

Every run but one checks for deadlock. Run session may stop: after a dropped DISCONNECTED the device is hidden, so that no phone can
connect, and its I2S task waits for a semaphore, or does not exist. Two requests and nothing after them would be an end of HttpFetch, but in Boot
power may fail at any time, and fetch_shared ends at its violation.

### Fairness

- AudioRing: `Fairness` lets the data callback and the I2S task go on when they can (both tasks have high priorities and no
  busy peers) and lets the phone keep streaming, without which nothing could start. The application task is under no
  fairness: a session may last for ever.
- WorkQueue: `BtcFairness` only for DispatchReturns, which must hold even if a handler hangs. QueuedIsHandled assumes
  `AppFairness` besides; a call that waits for a slot in the BTC queue is under strong fairness, since FreeRTOS gives slots to the
  tasks that wait for them, in order of priority, and the BTC queue fills again in between.
- A2dpSink: the application task runs when it has work, and a write ends because the DMA empties. Nothing is assumed of the
  phone or of the data.
- AudioSession: the application task runs when it has work, and a write ends (`OutputEnds`). Nothing is assumed of the stack, the
  data callback or the rest of the I2S task.
- AvrcpController: the application task runs, and a phone answers commands. Notifications may never come.
- Boot: `app_main`, the application task and the ADC task run; the GAP callback answers; each of the two request tasks runs, since
  a request has a time-out of 60 s and ends. `example_connect` is under no fairness: it waits for an address without a limit. Restarts are under none
  either: BootCompletes speaks of starts that are not interrupted again and again.

## 4. What the code does not keep

Of the first four TLC finds the behaviour in a run of its own; the fifth is a comment that a passing run refutes. PROJECT.json quotes the
lines.

1. **Playback can stall** (ring_stall). `ringbuffer_mode` is written by two tasks. If the I2S task underflows between the
   data callback's decision that the ring is full and its write of DROPPING, the PREFETCHING of the underflow is overwritten.
   The I2S task then waits for a semaphore that is given in PREFETCHING mode only, although the comments say that in both other
   modes "I2S is working". It lasts until the phone disconnects. A callback that read DROPPING in an earlier session does the same to the
   PREFETCHING of a start-up. StallsOnlyByLostMode, which is proved, says that these two writes over an unanswered PREFETCHING are the only
   causes: no other step of any task begins a stall.
2. **Refused events leak** (queue_leak). When `xQueueSend` times out the copied parameter is not freed, and when the dispatch of a
   metadata event fails the text is not. LeaksOnlyRefused, which holds, says that there is no other leak.
3. **Overlapping requests damage each other** (fetch_shared). Both count in one static `output_len`. IntactUnlessOverlap says that
   nothing else damages a response, and LastByteKept that even then the string ends within its buffer.
4. **A full battery overruns `num_string`** (display_num). Three bytes, and "100" takes four. So do temperatures of -10 and
   below.

5. **The simulated volume never changes** (target). "volume up locally every 10 seconds" (`bt_app_av.c:287`) is not what the simulation task does: the
   two lines that follow are commented out. Settled, which holds and is proved, contradicts the comment whenever a simulation task
   runs: `s_volume` is the phone's volume. Its mutant `SimulationTurnsUp` is the comment's program; put in the place of `SimulationWakes` it
   makes TLC find Settled violated.

What the models show besides, without a run, because the repository promises nothing on it: a dropped report of
DISCONNECTED leaves the device hidden for good (DiscoverableAgain says that no other one does), one of CONNECTED the connection
without sound; a dropped notification or a dropped answer ends a chain of registrations for the rest of the connection
(Registered says: no longer); a lagging handler may register one phone's events with the next, for a moment; when
`xTaskCreate` fails for the simulation task, the disconnection deletes the application task, `vTaskDelete(NULL)`; instructions of
different tasks tear each other on the line (OnlyTornLost says that no others are lost).

Comments and documents that differ from the code without touching a property: `main.c:252` speaks of a delay of 5 s
where the code has 10000 ms; `bt_app_core.h:80` of "0 others" where a failed assertion restarts the chip; `main.c:475` of Secure Simple Pairing that is "not used
here", where `sdkconfig` enables it and the callback confirms every request.

## 5. Proofs

All for every value of the constants that the modules' ASSUMEs allow. An invariant is proved by an inductive one that
implies it: the initial states satisfy it and every action keeps it, one case per action.

**AudioRingProofs.** `SessionInv` says what exists at each step of start-up and shut-down, and that an item is held only
between retrieval and return; it gives TypeCorrect and TaskNeverDangles. NoDangling alone is not inductive: that
the task exists only after ring and semaphore needs `app_pc`. `HandshakeInv` says, of every session whose start-up has not overtaken a release:
from the moment the data callback
has seen PREFETCHING until the I2S task takes the semaphore, that task waits, nobody else gives, and a prefetch once measured
stays in the ring. It gives GiveSucceeds, ReleasedOnPrefetch and PrefetchingWaits. That a callback may outlive its session costs no assumption: a
start-up sets PREFETCHING, after which all of it holds again unless the callback is amid a release. StallsHaveOneCause is the action property, one case for each step
that can make `Stalled` true. RingImplementsPipe maps every step to a step of AudioPipe or to a
stutter, under both invariants: the take of the semaphore is `Start` because the prefetch is still there, the underflow is `Starve`
because nothing waits and nothing is held.

**AudioSessionProofs.** `SessionInv` joins `TaskInv` of A2dpSinkProofs (there is one I2S task at most), the ring's invariant, which sessions of
the stack and the I2S task keep (tlapm cannot cite the theorems of an INSTANCE, so it is proved again through the instance), and what connects
them: `CallInv`, which ring, task and semaphore there are at each step of a start-up or shut-down and between them, and `UpInv`,
that a link that is up and heard of has its session, or its report of CONNECTED behind every CONNECTING and DISCONNECTED in the queue. Theorems:
SessionTypeCorrect, RingImplemented (every step is one of AudioRing, its reset or a stutter: no start-up meets what an earlier session has left),
PanicsOnlyInWindows (DataFindsRing), SessionSettles, and HandshakeInSession, the hand-shake in the whole device. SinkInSession carries
`SinkInv` over (`SinkSteps`: every step of the composition is one of A2dpSink, a restart or a stutter): ChecksPass, Settled and
AstrayOnlyInShutDown hold in the composition, although its data callback may panic where that of A2dpSink does not. PromiseInSession is
AudioPipe for the whole device: but for a restart of the chip every step is one of the pipe or leaves it alone.

**WorkQueueProofs.** `QueueInv` is the type invariant, the numbering of events (no message or block belongs to an event still to
come), InOrder, OwnedIsLive and LeaksOnlyRefused together. They need each other: that freeing one message's blocks
leaves those of all others alive follows from the order, which makes their numbers different. EventsImplemented maps every step
to one of EventQueue or a stutter; that the head of the sequence is the oldest of the set is InOrder (`IdsTail`). Theorems: TypeCorrect,
NoUseAfterFree, EventsImplemented, and that only refused events leak.

**A2dpSinkProofs.** The handler acts on a link that has long moved on, so no statement about the present link is inductive.
`SinkInv` says, as long as neither CONNECTING nor DISCONNECTED was dropped, that there is a history of the phases of the link, from
the one the handler is dealing with to the one its reports lead to, in which each queued report leads from one phase to the next (`Leads`), and that driver, scan
mode and task are those of the history's first phase, or on the way to it (`Handling`). The last phase is that of the link, or, if CONNECTED was
dropped, the one before it (`Heard`): that is all such a drop does. The stack extends the history at its end, `Receive`
drops its first phase, the handler's steps keep it. Theorems: TypeCorrect, DriverChecksPass, SettledWhenIdle,
AstrayIsBrief.

`TaskInv` is about devices that have lost more. A session can begin only once until it has ended, for two independent reasons, one
of which survives as long as not both kinds of report were dropped. If no DISCONNECTED was, there is one in the queue between any two CONNECTED, and
before the first of them if a session has begun (`Ended`). If no CONNECTING was, there is one of *these* between them, and its
installation fails, and restarts the chip, unless the channel of the last session is gone, with which its task goes (`Checked`). The two
statements about the queue are `Apart` and `Driven`; the lemmas on them say what appending and taking a report does. Theorem: OneTaskOnly.

**BootProofs.** `HandlerInv` says what a handler under way knows of its event (its piece fits what is left of the
response, the offset it read was within the buffer); it survives any overlap and gives TypeCorrect and NulStays. `AloneInv` adds, for
requests that have not overlapped, that `output_len` is what has arrived, cut off at the buffer's size, that the
buffer holds just that, and that a request that is over has left 0 behind; `CopiedFills` is the arithmetic of one copy. It gives ResponseKept,
which is IntactUnlessOverlap. BootImplementsFetch shows that a device that starts, fails anywhere and starts again takes the steps of HttpFetch only, so
that all of this holds in every start (BootFetchCorrect). `BootInv` adds to Boot's type invariant and SetUpBeforeUse what is set up at each call
of `app_main` (`ProgressInv`); it gives BootTypeCorrect, NothingRunsAhead and EveryCallbackKnown (HeardFromTheFirst).

**AvrcpTargetProofs.** The handler lags here too, and any report may be dropped. The volume needs one fact about the queue (`VolumeInv`): the
last volume in it, or the handler's if there is none, is the one set last, unless that one's report was dropped. `Explained` says, as long as no
connection was missed, that there is a history of views (how many simulation tasks, and is the handle that of one that runs), from the handler's to
the one the queued reports lead to (`Leads`), and that this one has a task for a connected phone and one for each unreported
disconnection (`Ends`). `TaskCounts` is the arithmetic of creating and deleting one task. Theorems:
TypeCorrect, SettledWhenIdle, TaskDeletedOnce.

**AvrcpControllerProofs.** Four facts together are inductive, without a history: an answer that no change of the connection
follows in the queue is that of the connected phone (`AnswersCurrent`), a report of a connection comes to an empty record or
right behind a disconnection (`ConnectedFollows`), CapabilitiesCurrent and ChainKept. With drops they hold for `lost = "none"`, and the step that makes
good an earlier drop has to establish them anew (`EndsDisconnected`, `ConnectedStep`). Theorems:
TypeCorrect, RecordIsCurrent, ChainsKeep.

**UartDisplayProofs.** `ShapeInv` bounds the line by what the tasks have sent of their instructions (`Sent`), which gives TypeCorrect.
`WholeInv` says that a task whose instruction has met no other is the only one amid an instruction, and that the line is what it has
sent; with Recovers it is inductive, and gives LineRecovers and WholeUnlessTorn. ChargeTable shows that BatPercent, which counts the table's
entries, is the chain of comparisons in the code, for every voltage: `OneMore` says what one more entry adds. With it and the type
invariant OverrunNeedsFullOrCold shows that `num_string` is overrun by a full battery and by numbers out of -9 to 99 only, the converse
of run display_num.

The assumptions are those on the constants: a mark between 1 and the ring's size, a packet that fits above the mark, positive
lengths, senders among the three tasks. No theorem assumes that reports get through or that callbacks end with their session; what a
dropped report may cost is in the property itself.

Model-checked only: every liveness property (DispatchReturns, QueuedIsHandled, PlaybackStarts, SessionEnds, DiscoverableAgain,
Registered, BootCompletes, PairingAnswered), which the prover cannot treat.

## 6. Not modelled, and why

- `bt_app_dev_cb` and every GAP event but the request to confirm a number: they log.
- Two I2S tasks on one ring, after both a CONNECTING and a DISCONNECTED were dropped: A2dpSink has them as "double" and "orphan", AudioSession
  does not.
- A lock that a deleted I2S task may hold is one of ESP-IDF; `s_pkt_cnt` is for a log line.
- What is in the flash: whether `nvs_flash_init` wants it erased is a free choice at every start. A restart resets everything else by
  construction, so that no property says anything of a recovery from what an earlier start has left.
- How often the chip restarts: without network or server it does so for ever, which BootCompletes excuses.
- `bt_app_task_shut_down`, `volume_set_by_local_host` (a variant in AvrcpTarget has it), the tear-down after the endless loop of the battery task: nobody calls or reaches
  them.
- Pins, rates and other parameters of UART, ADC, I2S and RTC, and the inside of `example_connect`: ESP-IDF, without a decision of this
  program. Their failures are in Boot.
- Contents of metadata, of JSON texts and log lines.

## 7. Plan

Done, in this order: AudioRing with AudioPipe, WorkQueue, A2dpSink, AvrcpController, AvrcpTarget, HttpFetch,
UartDisplay; Boot on top of HttpFetch; the recovery of AvrcpController and A2dpSink from dropped reports; AudioSession, which
composes A2dpSink with AudioRing, dropped reports included; EventQueue, which WorkQueue implements; the proofs about each of them, every safety property of a passing run among
them.

What could follow:

1. EventQueue in place of the sequences of the three handlers, so that what they assume of the hand-over is what WorkQueue is shown
   to implement.
2. Abstract specifications of the display's line (whole instructions in some order) and of the connection (what a user
   sees: found, connected, playing).
