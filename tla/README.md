# TLA+ models of the gno DAP client scripts

This directory holds a TLA+ verification project for the Debug Adapter
Protocol (DAP) client scripts in the gno repository. The scripts drive
`gnovm`'s debugger over TCP: they send requests, wait for responses and
events, and read variables. It also covers `foo.py`, the one non-test
Python file under `src/`. There are TLA+ modules, TLC configurations and
TLAPS proofs.

## The system

The Python code under `src/` is all client side. The DAP server, the Go
debugger, is not part of it.

| File | What it does |
|---|---|
| `gnovm/tests/integ/dap/test_dap_attach.py` | `DAPClient` class (`send_request`, `read_message`, `wait_for_response`, `wait_for_event`, `close`) and `test_attach_mode`: initialize, attach, setBreakpoints, configurationDone, continue, disconnect |
| `gnovm/tests/integ/dap/test_dap_variables.py` | The same client, and `test_variable_expansion`: launch, stop, stackTrace, scopes, variables, each step under an `if` on the response body |
| `gnovm/pkg/gnolang/testdata/dap_tests/test_dap_breakpoint.py` | The same client with a byte-accurate `read_message` (body loop, EOF break), and `main()`: after each send the script calls a bare `read_message()` rather than `wait_for_response` |
| `gnovm/tests/integ/dap/test_dap_output.py` | The same client, and `test_output_events`, which drains output events in a `while True` loop |
| `gnovm/pkg/gnolang/testdata/dap_tests/test_dap_simple.py` | Free functions, with a background reader thread printing every message |
| `gnovm/pkg/gnolang/testdata/dap_tests/test_dap_client.py`, `gnovm/tests/integ/dap/test_dap_simple_output.py` | Single-shot scripts that number every request `seq = 1` |
| `gnovm/pkg/gnolang/foo.py` | An unrelated floating-point loop that computes pi |

**How the parts interact.** A script is one thread, or two in
`test_dap_simple.py`. It owns one TCP socket to the server. Each request
is written whole by `sendall`. Every read is a blocking `recv` with no
socket timeout. The server answers requests and pushes events (initialized,
stopped, output) on the same stream.

The protocol promises two things that the client has to uphold itself:
- requests are correlated with responses by `seq` and `request_seq`;
- events may arrive at any point between responses.

## Modules

| Module | Models |
|---|---|
| `DAPSession.tla` | One client session against a server: the `DAPClient` methods as actions, and the script as an interpreted program |
| `DAPScripts.tla` | The three scripts as values of the constant `Script`, one `Step` per statement of the script that calls the client or branches |
| `MCDAPSession.tla` | TLC instance: 11 command names, 3 event names, and which commands trigger which events |
| `DAPClientAPI.tla` | What the `DAPClient` class promises a script: each call one atomic step, with the connection and the server hidden. `DAPSession` is shown to implement it |
| `DAPSessionProofs.tla` | TLAPS proofs of type correctness, the wire invariant, request numbering, response correlation and the refinement of `DAPClientAPI`, for every script and every constant value |
| `DAPFrame.tla` | Reading one Content-Length frame: the three readers of the repository against a server that writes in TCP segments of any size and may close |
| `FrameRead.tla` | What a frame reader promises: the message once the whole frame is in, an error only after the peer cut the frame. `DAPClient.read_message` is shown to implement it |
| `DAPFrameProofs.tla` | TLAPS proofs that `DAPClient.read_message` loses a frame only when the peer cut it, and that it implements `FrameRead` |
| `PiSeries.tla` | `foo.py`: Python's `range`, the generator and `sum()` as a loop |
| `PiLeibniz.tla` | What `foo.py` promises, in one step: it prints the Leibniz sum of `rounds` terms. `PiSeries` is shown to implement it |
| `PiSeriesProofs.tla` | TLAPS proofs, for every `rounds`: no division by zero, the terms summed are the Leibniz terms, and the refinement |

### DAPSession: state and actions

- **Client state.** `pc` is the statement of `Script` being run. `iter` is
  the wait-loop position: `"recv"` at `read_message`, `"head"` at the
  deadline test. `seq` is `self.seq`. `result` is the value of the last
  call (`None` after a timeout). `cclosed` records that `close()` was
  called.
- **Connection.** `toServer` and `toClient` are the two directions of the
  TCP stream, as FIFO sequences of whole messages.
- **Server.** `pending` holds requests read but not yet answered. `recvd`
  holds the commands seen so far. `srvOpen` says whether the server is
  still up. `nEvents` counts events, capped at `MaxEvents`.
- **History.** `sent` is every request written, in order. `dropped` is
  the events the client read and threw away. Both are history variables:
  nothing reads them, and the properties refer to them.

Actions, with the code they translate (the exact lines are in `PROJECT.json`):

- `SendRequest`: `self.seq += 1` followed by `sendall`. `SendFails`: the
  `sendall` raises because the peer has gone, and the `except`/`finally`
  runs.
- `ReadMessage`: a bare `read_message()` in `test_dap_breakpoint.py`, which
  consumes whatever message comes next.
- `WaitMatch`, `WaitSkip`, `WaitInTime`, `WaitTimeout`: the `while` loop of
  `wait_for_response` and `wait_for_event`.
  - A non-matching message is discarded.
  - The loop test is evaluated only between messages.
  - A read blocks while `toClient` is empty. That includes after the
    server is gone: the header loop of `read_message` spins on `recv`
    returning `b''`, and the model shows this as no client step being
    enabled.
- `CheckSuccess` and `CheckRaises`: `resp['success']`. On `None` this
  raises `TypeError`, which the `except` catches, and control goes to
  `finally`.
- `BranchEnter` and `BranchSkip`: the scripts' `if stopped:` and
  `if resp.get('body', {}).get(...)` statements.
- `Close`: `client.close()` in `finally`.
- Server (modelled from spec section 6, since the server is not under
  `src/`):
  - `ServerReceive` reads a request.
  - `ServerRespond` answers any pending request, in any order.
  - `ServerEmit` sends an event once a triggering command has been seen.
  - `ServerHangUp` closes after answering `disconnect`.
  - `ServerCrash` dies between two messages, and `ServerCrashMidFrame`
    dies in the middle of one, when `ServerMayCrash` is set. The cut
    frame is the message `Cut` at the end of `toClient`.
- `ReadRaises`: `read_message` (bare or inside a wait) reaches the cut
  frame; `json.loads` raises on the partial body, the `except` catches it
  and control goes to `finally` with no result.

**Data abstraction.** Requests are `[seq, cmd]`. Messages are
`[type, seq, name, body]`, where `body` is the one Boolean the scripts
test. JSON encoding, framing and printing are abstracted away. The
byte-level framing is modelled separately, in `DAPFrame`.

### DAPFrame: state and actions

The frame is counted in bytes, not spelled out:
- `HeaderLen` header bytes, then `bodyLen` body bytes;
- `written` is what the server has sent, `consumed` what the reader has taken, `got` is `len(body)`;
- `phase` is the reader's position, or its outcome: `"ok"` (json.loads succeeds), `"bad"` (JSONDecodeError), `"eof"` (the reader returned).

The constant `Variant` selects the reader:

| Variant | Code | Header EOF | Body |
|---|---|---|---|
| `"DAPClient"` | `DAPClient.read_message` | no test: spins | loop, stops on an empty chunk |
| `"reader_thread"` | `read_messages` in `test_dap_simple.py` | returns | one `recv(content_length)` |
| `"single_shot"` | `read_dap_response` in `test_dap_client.py` | no test: spins | one `recv(content_length)` |

Actions:
- `RecvHeaderByte`: `recv(1)`, which blocks until a byte has arrived.
- `RecvHeaderEOF`: the reader thread's `if not data: return`.
- `RecvBody`: `recv(n - len(body))` returns between 1 byte and what has arrived.
- `RecvBodyEOF`: `recv` returns `b''` after the peer closed.
- `json.loads` is folded into the reader step that ends the read (`Loads`).
- The server (spec-modelled) writes the frame in segments of any size (`ServerWrite`) and closes after it, or at any time when `ServerMayClose` holds (`ServerClose`).

### DAPClientAPI and FrameRead: what the client promises

`DAPClientAPI` has the script's state of `DAPSession` (`pc`, `seq`, `result`, `cclosed`) and the send history `sent`, and one action per call:
- `SendRequest` and `SendRaises` (the `sendall` that raises, which leaves for `finally`);
- `ReadMessage` returns some answer to a request written so far, or an event;
- `WaitForResponse` returns the answer to the last request written, or `None`;
- `WaitForEvent` returns an `e` event, or `None`;
- `ReadRaises`: any of the three reads may instead raise on a cut frame, and the script goes to `finally`;
- `CheckPasses`, `CheckRaises`, `Branch` and `Close` are the script's own steps.

It has no fairness: the runs `breakpoint_hang` and `attach_eof_spin` show that a call need not return. The refinement mapping is the identity on those five variables (`API == INSTANCE DAPClientAPI`). It hides the wait loops' `iter`, the two channels and the server. `WaitSkip`, `WaitInTime` and every server step are stuttering steps of `DAPClientAPI`.

`FrameRead` has the server's `bodyLen`, `written` and `srvClosed`, and the outcome of the call. `Deliver` (`"ok"`) needs the whole frame written. `Fail` (`"bad"`) needs the server closed with the frame unfinished. `Deliver` is weakly fair: a complete frame is always read. `Fail` is not, because `DAPClient` spins when the peer closes in the header. The mapping sends `outcome` to `phase` once the reader has reached `json.loads`, and to `"pending"` before.

### PiSeries and PiLeibniz (`foo.py`)

`PyRange(start, stop, step)` is Python's `range` for a positive step, as the sequence it iterates. `Terms(r)` is `range(1 - 2r, 2r + 1, 4)`.

`sum()` is a loop:
- `SumStep` takes the next `i` and adds `1 / i`;
- `SumDone` ends the loop, computes `4 * acc` and prints it.

The float accumulator is represented by `addends`, the sequence of divisors added, in order. Float addition is not associative, so that sequence is what fixes the printed value. Rounding itself is not modelled.

`rounds` is `10^9` in the code. The model lets it range over the constant set `Rounds`.

`PiLeibniz` is the abstract specification: one step `PrintPi` that prints the sum over `LeibnizSet(rounds)`. The refinement mapping sends `terms` to the values of `addends` once the loop is done (the empty set before), and `printed` to `pc = "done"`.

## Runs

All runs use `MCDAPSession` with `MaxEvents = 2`. Two events are enough
for an event to come both before and after a response, and for two
different events to queue up. Every script ends with `disconnect` and
`close`, so the runs are finite without a further bound.

| Run (cfg) | Expect | Properties | Shows |
|---|---|---|---|
| variables_correlation (`MCVariables.cfg`) | pass | TypeOK, WireCorrelated, ResponseCorrelated | Under timeouts, interleaved events and a server that crashes between or inside messages, `wait_for_response` in the branching variables script returns only the answer to the request just sent, and the inductive wire invariant holds |
| breakpoint_seq (`MCBreakpoint.cfg`) | pass | SeqConsecutive, ImplementsAPI | Requests are numbered 1, 2, 3, … on every path, the raise to `finally` on a cut frame included. The script that uses `read_message` and `wait_for_event` implements `DAPClientAPI` |
| attach_terminates (`MCAttachLive.cfg`) | pass | Termination | Against a server that never crashes, the attach script always reaches `close()` |
| attach_cleanup (`MCAttachCleanup.cfg`) | violation | DisconnectBeforeClose | A timeout turns into a `TypeError`, and `close()` runs without `disconnect` |
| breakpoint_read_is_response (`MCBreakpointRead.cfg`) | violation | ReadIsResponse | A bare `read_message()` after a send can return an event |
| breakpoint_event_lost (`MCBreakpointEvents.cfg`) | violation | EventNotLost | An event read in place of a response is lost to the later `wait_for_event` |
| breakpoint_hang (`MCBreakpointLive.cfg`) | violation | Termination | `wait_for_event` blocks past its timeout when no message comes |
| attach_eof_spin (`MCAttachCrashLive.cfg`) | violation | Termination | After the server dies, `read_message` spins on EOF for ever |
| pi_series (`MCPiSeries.cfg`) | pass | NoZeroDivision, LeibnizTerms | For `rounds` 1..14, `1 / i` never divides by zero, and the terms summed are the first `rounds` Leibniz terms, negated when `rounds` is odd |
| frame_loop (`MCFrameLoop.cfg`) | pass | BodyComplete, ReadReturns, ReadRefinement | `DAPClient.read_message` reassembles any segmentation of bodies of 1..4 bytes. It fails only on a frame the peer cut, returns once the frame is in or the peer closed mid-body, and implements `FrameRead` |
| frame_reader_thread (`MCFrameThread.cfg`) | pass | ThreadReturns | The reader thread's read returns once the frame is in or the server closed, wherever it closed, the header included (`DAPClient` spins there instead) |
| frame_short_read (`MCFrameShortRead.cfg`) | violation | BodyComplete | One `recv(content_length)` returns the first segment only, and `json.loads` rejects a frame the server sent whole |

Bounds of the new runs:
- `DAPFrame` uses a 2-byte header and bodies of 1 to 4 bytes. With 4 bytes, a body can be split into up to four segments, and the peer can close between any two.
- `PiSeries` uses `rounds` 1..14. That covers both parities and runs that reach positive and negative terms. The proofs cover every `rounds`.

`CHECK_DEADLOCK FALSE` appears only in the runs where the program does
stop:
- after `close()`;
- in the documented hangs, where a blocked `recv` is a real end state of
  the process.

### Fairness

`WF` is assumed on three things:
- the client's step, because the script is a single thread that always
  runs when it can;
- the server reading requests;
- the server answering pending requests. This is the server's contract,
  spec section 6: every request gets one response.

Events, hang-up and crash carry no fairness. The server is not obliged to
produce them.

### Findings

The five violation runs are the findings in `PROJECT.json`:
- `test_dap_attach.py:102`: cleanup skips `disconnect`.
- `test_dap_breakpoint.py:101`: a bare read is off by one when an event
  intervenes.
- `test_dap_breakpoint.py:104`: the initialized event is consumed by the
  bare read at line 101, and `wait_for_event('initialized', 2)` gives up;
  likewise the stopped event (read at 129, waited for at 133).
- `test_dap_breakpoint.py:73`: the timeout is not enforced while `recv`
  blocks.
- `test_dap_attach.py:34`: `recv(1)` spins on EOF.
- `test_dap_simple.py:30` (also `test_dap_client.py:39`): a single `recv(content_length)` cuts a body delivered in two segments. `json.loads` raises, and the reader thread exits, so no later message is read.

## Proofs

The proofs assume only `ConstantsAssumption`. It requires:
- the script is well formed: it ends in `close`, every jump target lies in
  range, and branches jump forward;
- `disconnect` is a command;
- commands and events are disjoint.

The proofs hold for every script of that form, not only the three given
here.

**`TypeCorrect`: `Spec => []TypeOK`.** `TypeOK` alone is not inductive.
The proof uses `TypeInv == TypeOK /\ seq < pc`. The bound `seq < pc`
holds because every statement increments `seq` at most once and `pc`
only moves forward. The bound keeps request numbers inside `0..MaxSeq`.

**`ResponseCorrelation`: `Spec => [][ResponseCorrelatedStep]_vars`.**
Whenever `wait_for_response` returns a message, that message is a
response to the most recent request. The proof uses the inductive
invariant `IInv == TypeInv /\ WireCorrelated`, whose parts are:
- `SeqConsecutive`: the i-th request written carries seq i;
- `seq` equals the number of requests written, or one more after a
  failed `sendall` that has already left for `finally`;
- every message in `toServer` and every pending request is a request
  that was written;
- every response in `toClient` answers a written request.

So a response whose `request_seq` equals `seq` answers the request just
sent. `Matches` tests exactly that, so the step is correct. The lemmas
about `Tail` and `Append` of the two channels come from
`SequenceTheorems`.

**`WireInvariant` and `SeqNumbering`.** These state `[]WireCorrelated` and `[]SeqConsecutive`. Both follow from the same inductive invariant.

**`ClientRefinesAPI`: `Spec => ImplementsAPI`.** This is the whole of `DAPClientAPI!Spec`, which has no fairness. One more invariant is needed, `EventsFormed`: every event in `toClient` is `EventMsg` of its name. The inductive invariant is `RInv == IInv /\ EventsFormed`. The lemma `APIStep` shows that every step maps to a step of `DAPClientAPI` or a stutter. The step cases are:
- `WaitMatch` on a response is `WaitForResponse`. `WireCorrelated` makes the response the answer to `sent[Len(sent)]`, as in `ResponseCorrelation`.
- `WaitMatch` on an event is `WaitForEvent`. By `EventsFormed` the message is `EventMsg(e)`.
- `ReadMessage` returns the head of `toClient`. `HeadIsAnswerOrEvent` shows that a head other than `Cut` is in `Answers \cup Events`.
- `ReadRaises` (the head is `Cut`) is `DAPClientAPI!ReadRaises`: `result` becomes `None` and the script goes to `finally`. `ServerCrashMidFrame` only appends `Cut`, a stutter.

**`DAPFrameProofs`.** `LoopReadsWholeBody` (`[]BodyComplete`) holds for `DAPClient.read_message`. The assumption is `FrameAssumption`: positive header and body lengths. The invariant `FInv` records:
- `consumed = HeaderLen + got` past the header;
- `got = bodyLen` on success;
- for the looping reader, a `"bad"` outcome only with the peer closed and every arrived byte consumed.

From that, `written = consumed < Total`. `BodyComplete` does not hold for the single-recv readers, as the `frame_short_read` run shows.

`LoopRefinesRead` proves, for `DAPClient.read_message`, `Spec => FrameRead!Init /\ [][FrameRead!Next]_avars`. It uses the same invariant `FInv`, and the lemma `LoopStep` covers one case per action:
- A reader step that leaves `phase` in `header`/`body` is a stutter.
- `RecvBody` completing the body is `Deliver`. It has taken `k <= written - consumed` bytes with `consumed = HeaderLen + got` and `got + k = bodyLen`, so `written = Total`.
- `RecvBodyEOF` is `Deliver` if the body is complete, and otherwise `Fail`. Both follow from `written = consumed = HeaderLen + got`.
- The server's steps are `Write` and `Close`.

**`PiSeriesProofs`.** The assumption is `RoundsAssumption`: every `rounds` is a positive integer. The lemmas are:
- `TermsShape`: the range has `r` elements, `1 - 2r + 4(k - 1)`;
- `TermsNonZero`: each of them is odd, so not 0;
- `TermsLeibniz`: their set is `LeibnizSet(r)`. The proof gives explicit witnesses in both directions.

The inductive invariant `IInv` says `addends` is a prefix of `Terms(n)`, and all of it once done. It gives:
- `ZeroFree` (`[]NoZeroDivision`);
- `LeibnizCorrect` (`[]LeibnizTerms`);
- `RefinesAbstract`: `Spec => PiLeibniz!Init /\ [][PiLeibniz!PrintPi]_avars`.

**Left to TLC.** Liveness (`Termination`, `ReadReturns`, `ThreadReturns` and the fairness part of `ReadRefinement`) is checked by TLC only. TLAPS
cannot prove liveness under fairness or reason about `ENABLED`.

## Not modelled yet

- Header contents: a missing or non-numeric `Content-Length`. `DAPFrame` counts header bytes, and the modelled server always sends a correct length. The encoder side, `send_request`, is modelled as one atomic `sendall`.
- The interleaving of the `test_dap_simple.py` reader thread with the main thread's sends, sleeps and `close`. The reader's frame handling is modelled in `DAPFrame`.
- The repeated `seq = 1` of `test_dap_client.py` and `test_dap_simple_output.py`. Neither script ever matches on `request_seq`, so the repetition changes nothing the model can observe.
- Floating-point rounding in `foo.py`.
- The output-drain loop of `test_dap_output.py`.
- The `seq = 1` single-shot scripts.

## Plan for later sittings

1. `DAPReaderThread`: the two threads of `test_dap_simple.py`, where the main thread closes the socket under the reader.
2. Add `test_output_events` and its drain loop to `DAPScripts`, with a termination run.
3. Header contents in `DAPFrame` (a missing `Content-Length`), against a server that may send a malformed header.
