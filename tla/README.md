# A model of The Trader Was Replaced

TLA+ modules, TLC runs and TLAPS proofs about the parts of this program where
threads, coroutines, frames, files, venues and the screen meet.

The program is a Bevy (Rust) desktop application with a Python engine, built on
nautilus_trader, embedded in the same process.

## 1. The system

### Threads, frames and channels

| Thread | Runs | Source |
|---|---|---|
| UI | Bevy systems, once per frame, in any order the schedule leaves open; sends `TransportCommand`s, drains two channels | `src/src/backend_sync.rs`, `src/src/ui/` |
| worker | `inproc_python_worker`: takes one command at a time and calls the Python handler to its end; polls the state when its queue is empty | `src/src/backend_transport.rs` |
| live loop | one asyncio loop: venue adapter, account sync, kernels of live strategies, EC stream | `_ensure_live_loop` in `src/python/engine/_backend_impl.py` |
| loss threads | one per detected breach of the daily loss, `_fail_run_for_loss` | `src/python/engine/_backend_impl.py` |
| backtest | one thread per run | `src/python/engine/inproc_server.py` |

The engine answers over the *status channel* (one `BackendStatusUpdate` per
handled command) and pushes `BackendEvent`s over the *event channel*, from any
thread. Each is FIFO; nothing orders one against the other. What the UI does in
a frame it does in systems that talk to each other through resources, change
detection and messages, and it keeps the person's work in four files: the
strategy's `.py` and `.json` and a cache copy of each.

### Components

| Component | State | Operations | Interacts with | What makes it correct |
|---|---|---|---|---|
| Live strategy runs (`live/strategy_host.py`, `run_registry.py`, `strategy_state_machine.py`, `engine_controller.py`, `nautilus_exec_client.py`) | status per run, registry with a bounded history, kernel, tick listener, orders | start, pause, resume, stop, fail, attach, detach, submit, cancel | worker and loss threads under one lock, live loop through futures with timeouts | one active run, no run or kernel left behind, nothing leaves for the venue after the sweep, terminal is final |
| Safety rails (`live/safety_rails.py`, `_backend_impl.py`) | rails and equity baseline per run | record, evaluate, release | account sync, loss threads | a trading run is watched; a breach stops it |
| Second secret relay (`live/secret_vault.py`, `secret_provider.py`, `src/src/ui/secret_modal.rs`) | requests, stored secrets, futures, timers, prompt | resolve, submit, expire, prompt | live loop waits, worker submits, UI prompts | no lost wake-up, no leak, every wait ends, secrets expire |
| Manual orders (`live/order_facade.py`, handlers in `_backend_impl.py`) and the adapter (`exchanges/tachibana*.py`) | last event per order, known orders, seen EC frames | place, cancel, modify, dispatch of EC frames | venue, loop, worker, event channel | never terminal while the order can trade; each fill once, on the right base |
| Order book of the UI (`src/src/trading.rs`, `backend_sync.rs`) | rows by `client_order_id` | seed, event, modify, reconcile | both channels | fills only grow |
| Prompts of the order flow (`order_panel/`, `secret_modal.rs`, `modify_modal.rs`, `reconcile_modal.rs`, `relogin_modal.rs`, `component/modal_layer.rs`) | five prompts, their stack, two popups, the typed secret | open, answer, time out, Escape, click | status and event reports, keys | one key one prompt; no prompt without a stack entry; no secret after its prompt |
| Venue session and execution mode (`_backend_impl.py`, `live/live_runner.py`, `footer.rs`, `venue_menu.rs`) | session, runner, mode, subscriptions | login, logout, set mode, list, subscribe | everything on the loop, the polls | what the UI shows and subscribes is what is there |
| Scenario and instrument list (`scenario_parser.rs`, `instrument_picker.rs`, `scenario_startup_panel.rs`, `instruments_universe_*.rs`) | scenario, list, watch, universes | parse, edit, write back, prune, restore | sidecar file, venue session, runs | an edit is never taken back by the application's own writes; the run gets what is shown |
| Strategy files and layout (`layout_persistence.rs`, `restore.rs`, `strategy_editor.rs`) | four files, editors, dirty flags, deferred layout | edit, autosave, save, save as, open, restart | the file system | nothing typed is lost, no file gets another strategy's code |
| Edit history (`editor_history.rs`, `strategy_editor.rs`, `floating_window.rs`) | undo and redo stacks, pending edits | record, undo, redo | editors and windows | an undo applies to what it was recorded from, and ends |
| Find and replace (`strategy_editor_find.rs`) | query, matches, target, focus | search, step, replace | editors, focus | what is shown is what is there |
| Backtest runs (`inproc_server.py`, `nautilus_backtest_runner.py`, `gui_bridge_actor.py`, `footer.rs`) | running flag, pause and step events, bars | run, pause, resume, step, stop | worker, backtest thread | a pause holds, the controls reach the latest run, its end is told |
| Transport worker (`src/src/backend_transport.rs`) | command queue | dispatch, poll | all handlers | always comes back |
| Account sync (`live/account_sync.py`), watchdog, scheduler | last snapshot; debounce; warming flag | tick, refresh | venue, UI, rails | what changed is emitted once; warming ends |
| Market data (`live/live_runner.py`, `aggregator.py`, ...) | subscriptions, partial bars, listeners | subscribe, tick | adapter, kernels, UI | bars ordered and complete |
| Replay engine (`core.py`) | replay state, providers | load, step, stop | worker | legal transitions under one lock |
| Supervisor, idle shutdown | lifecycle, restart budget | - | - | inert in the single-process build |

### What is hard here

* Three kinds of thread act on one run, and every wait for the live loop has a
  timeout after which *the coroutine goes on*: attach, teardown, place, cancel,
  modify. What arrives late must do no harm.
* A single worker serves all commands. Whatever blocks it also blocks the
  command that would release it.
* Two FIFO channels without an order between them, HTTP answers and EC frames on
  separate connections, and a stream that replays the day at each reconnect.
* State read under one lock and pushed outside of it.
* Frames: an effect asked for by one system is carried out by another, in this
  frame or the next; change detection fires for writes that change nothing; many
  pairs of systems have no declared order.
* The same list of instruments lives in a file, a cache copy of it, a parsed
  scenario and a registry, and each is written from another.
* Saves of several files, of which any may fail, and a restart from whichever
  were written.

`PROJECT.json` lists the hazards one by one, each at its line, with the
properties that would notice it.

## 2. The modules

`Faulty_...` operators in the modules are no part of a specification. Each is a
mapped definition with a plausible bug; put in its place, TLC refutes the
property `PROJECT.json` names under "mutants". `MC...` modules hold the values
TLC needs and nothing of the system.

### `RunLifecycle` and `LiveRun`

`RunLifecycle` is the abstract specification of runs: at most one at a time
between its registration and a terminal status, and the moves that the table
`_ALLOWED` of `strategy_state_machine.py` has (LOADING is passed over, since no
run is ever seen in it). `LiveRun` implements it, with a refinement mapping from
the state machines of the registered runs. As the code raises an exception on a
move that is not in the table, the refinement also says that no interleaving
ever gets to that exception.

`LiveRun` has the runs, in the order of their start, with the worker, one loss
thread per run and the live loop.

| Model | Code |
|---|---|
| `sm`, `registered` | state machines and `RunRegistry` |
| `lock` | `_live_strategy_lock`, held by a handler and a loss thread from the check to the end of the teardown |
| `pc`, `job` | how far the worker and each loss thread are in their handler |
| `seen` | the status a thread has read in `_publish_live_strategy_event` and not yet pushed |
| `loopq`, `attach` | coroutines scheduled with `run_coroutine_threadsafe` that have not begun; progress of each `_do_attach` |
| `kernel`, `kernels`, `listener`, `taps` | the controller's fields; kernels that run; tick listeners on the runner |
| `rails`, `baseline` | `_run_rails`, `_run_equity_baseline` |
| `ord`, `swept` | the one order of each run; runs whose teardown has swept the orders |
| `mode`, `session` | execution mode; whether a venue session (with its facade) is there |
| `fetching` | `AccountSync._tick` awaits the snapshot |
| `shown`, `announced` | the last status pushed for each run; runs whose STOPPED was pushed |

Every handler is split where another thread can come between: the lock, each
wait for the loop, each push. A wait may end at any time after it was scheduled,
by its result or by its timeout (10 s for attach and stop, 6 s for the cancel
sweep); the coroutine then goes on by itself. Left out: strategy code and bars,
the arithmetic of the rails (a snapshot breaches or does not), the second order
of a run, and a start that is refused before it has an id.

`MaxHistory` (64 in the code) must be at least 1: with a history of none a run
whose kernel stop timed out would be evicted while its kernel can still submit.
With one or more the loop's FIFO queue stops that kernel before a later start
can evict its run.

### `SecretRelay`

Calls of `resolve()`, of a manual order (its handler blocks the worker) or of a
strategy's order (on the loop alone), the vault's dictionaries, and the prompt.
The synchronous part of a `resolve()` is split into its statements, since the
worker may submit between any two of them, but no other coroutine and no timer
runs there (`LoopFree`). Request id and secret are named by the call. The arming
of the TTL timer is merged into `submit`.

### `OrderRows`

One order at Tachibana: the three handlers, the coroutines of facade and
adapter, the EC stream with its seen-set, both channels, and the row. The venue
is external: it may accept, refuse, accept without the identifiers, fill in
parts, change, cancel and expire, and it answers over one connection while it
reports over another. The quantity of an event's EC frame is kept as the code
computes it (`ref.qty - leaves_qty`, clamped). Left out: prices, `GetOrders`
seeding, a relogin (which clears the seen-set), a second order, and kabu.

### `UiPrompts`

The prompts of the order flow and the stack that decides which of them Escape
closes. A frame takes keys, a click and reports, then runs the systems that have
something to do one by one; `MayRun` allows every order the plugin's `.before`,
`.after` and phases leave open.

| Model | Code |
|---|---|
| `asked`, `issued`, `input` | the secret request and the text typed for it |
| `open`, `dirty` | the other prompts; change detection on their resources |
| `stack`, `was` | `ModalStack`; the mirrors' own flags (`was_on_stack`) |
| `popups` | settings and the context menu |
| `frame` | systems still to run, the input of the frame, how it began |

`Declared` says whether the Escape system is held to the two orders it is
declared with, which contradict each other (finding `ui_prompts_frame`). In the
passing run neither is held to, so either way out of the contradiction is
explored. Abstracted: the pointer hits only what earlier frames showed; the
stack is a set, since priorities order it; the contents of the order form; a
frame with a click has no key and reports of one channel only.

### `VenueSession`

Login, logout, execution mode, the list of instruments and the subscriptions:
`session` is the backend, `worker` the commands that wait, `updates` the reports
not yet drained, `ui`, `tickers` and `registry` what the frame's systems read,
`chain` the memory the subscribing systems have of their own. The chain of one
frame is one action; the worker with its response handler another, and a poll
happens only with an empty queue, as in the code. `hasty` remembers that the
person gave a command before the last one had settled, `skipped` the ids that a
system refused, that came in the frame of a mode switch, or that a late call
dropped: the properties speak of the rest. `session.subscribed` is
`LiveRunner._aggregators`, and `session.late` counts, per id, the calls of
`subscribe` and `unsubscribe` that go on after the worker's 5 s wait for them. Such
a call may end at any time (`LateCallEnds`), with or without dropping its id, or
with the runner it was made on; a time-out counts as an operation. Left out: the
login dialog, the timeouts of a teardown, the daily refresh.

### `ScenarioSync`

The scenario of the sidecar and everything that is computed from it. `file` are the
files (with a cache copy), `watch` the memory of the reading system, `scen` and
`reg` the parsed scenario and the list, `target` the file a save goes to, `avail`
and `live` the universes that prune the list. A frame is one action: the chain is
ordered in the code. `wanted` is what the person's edits amount to and `crossed`
that something else rewrote the file in between. A save may stop after the flush to
the cache, after the sidecar, after the `.py` or during the copy to the cache
(`Got`), a Save As without its `.py` is taken back, and a sidecar that names another
file for its instruments keeps naming it when a list is written into it. Ids are a
set, an end date stands for all other fields, LiveManual and LiveAuto are one mode,
a reference to another file may or may not resolve.

### `StrategyFiles`

Editors, the `.py` and `.json` of two strategies and the cache copy of each: typing,
both autosaves, Save, Save As, Open, the layout that is deferred until the strategy
is loaded, failing writes, crash, close and restart. A text is known by its strategy
and the number of its edit. A sidecar may name any strategy, its own or, as in a
pair of files that was copied or renamed, another one; if that one's code is gone,
the code beside the sidecar is loaded (`Defer`), while the sidecar is copied to the
cache as it is. Copying to the cache may fail at the code, at the sidecar, or at the
removal of the old sidecar (`SidecarCopy`). Windows are asked for in the order of
the file that lists them, which may be any (`Requests`). `NoneAssumption` says that
the marker `None` is none of the values it stands beside.

`lineage`, `mixed` and `left` are history. `lineage[f]` are the strategies whose
code was saved as `f` on purpose; `left` is what a restart has to bring back.
`mixed` is set by the steps after which windows, cache and path no longer speak of
one strategy, and from then on `NothingLost`, `SavedIsOwn` and `EditIsCached` claim
nothing:

| Step | What is mixed |
|---|---|
| a load that leaves windows of the strategy before it open | their text is merged into the new file |
| a load, or a Save As, that is not copied to the cache | the cache still holds what was there before |
| the application ends while the sidecar in the cache names another strategy than the one at hand | a restart takes the cached code for that strategy's (section 3) |
| an autosave between a load and its windows | the old text is written over the new cache |
| a layout whose strategy is not loaded with it, while fragments of an earlier load are left | its windows show those, of whatever age |

In the frames that a load takes (`Settled` is false) the person does nothing; a
crash may still come. Left out: window geometry, camera, chart sizes, other panels,
schema versions, a crash inside `sync_to_cache`.

### `EditHistory`

Undo and redo as they are carried out: one system takes an entry off a stack and
queues its edit, another applies it, windows come back through the panel
dispatcher and get their text later, and what is pushed while an edit is carried
out is refused. `record` and `cursor` are the history, `queue` and `replaying`
the edits being carried out; an editor's text, its widget's and the text on its
way to the widget are apart. Typing is free at any moment;
window operations and undo happen when nothing is being carried out. `stray`
marks the entries that the merge of two editors spoils (section 3). Left out:
the clearing of the editors by a load, a deferred layout at the same time, and
the blank text of a new widget.

### `FindReplace`

One panel over all editors: its two fields, the matches of the last computation,
the editor it searches, the keyboard focus, each editor's fragment, widget and
text on its way to the widget. A frame takes a key or a click and runs its
systems in any order the plugin leaves open; clicks that a system returns before
reading are there for one more frame, as Bevy's messages are. The search is
`FindMatches`, a scan of each line of the text, and what is shown is compared in all
reachable states with `Places`, which says by definition which occurrences count;
a replacement (`ApplyReplacement`: absolute ranges, sorted, spliced from the
right) likewise with `Substituted`. The loops are recursive functions over the
length of what they read, so that they can be proved about. Left out:
the cooldown of Ctrl+F, the panel's windows, the drawing, case and the width of
characters, text that comes from undo or a load (`EditHistory`), and editors
that are opened again.

### `ReplayRun`

A backtest from the footer's buttons to its last bar and back: `cmds` wait for
the worker, `gate` holds the pause and step events of each run, `ctl` the run
whose events the server holds, `thread` how far each runner is, `news` and
`status` what the UI has not drained, `ui` what it shows. The look at the pause
event, the look at the step event and the taking of a step are separate steps of
the thread. `AnyOrder` lets the commands come in any order, as the calls of
`InprocLiveServer` may and its tests make them; without it the footer's guards
apply, under which Pause is never offered (section 3). Left out: the strategy
and its orders, the speed, start-up progress and its 60 s timeout.


## 3. The runs

| Run | Bounds | Shows |
|---|---|---|
| `live_run_safety` | 2 runs and the start of a third, 1 terminal run kept, one of the two live modes | `ImplementsLifecycle` (the refinement), `NoStrandedRun`, `KernelOwned`, `SweepIsFinal`, `LossWatched`, `TapRemoved`, `OrdersNeedRun` |
| `live_run_live` | 1 run, fairness | `BreachStopsRun`, `WorkerReturns` |
| `secret_relay` | 3 calls, 1 purpose, fairness | `NoLostWakeup`, `DeliveredIsBounded`, `CallEnds` |
| `order_rows` | 2 shares, a change to 3, 1 fault, 2 events, 1 update and 3 frames outstanding | `ClosedIsTrue`, `FillBounded`, `FillKept` |
| `ui_prompts` | 4 of the 5 prompts, 1 request | `StackMirrorsPrompts`, `EscapeTakesFront`, `SecretForgotten` |
| `venue_session` | 2 ids, 1 subscription allowed, 4 operations, 4 reports outstanding, fairness | `LiveNeedsVenue`, `ShownIsTrue`, `ListedIsSubscribed`, `ComesToRest` |
| `scenario_sync` | 2 strategies, 2 ids, 2 end dates, 4 operations, fairness | `EditsAreKept`, `RunsWhatIsShown`, `LockedIsRestored`, `EchoEnds` |
| `strategy_files` | 2 strategies, 2 editors, 1 each of edits, opens, saves and mishaps, fairness | `NothingLost`, `SavedIsOwn`, `RestartRestores`, `LoadEnds`, `EditIsCached` |
| `edit_history` | 2 editors and a panel, a history of 3, 4 operations, fairness | `RecordingResumes`, `RecordFits`, `UndoEnds` |
| `find_replace` | 2 editors, 2 characters in the fields, 1 change of a text | `ShownIsFound`, `FocusIsAlive`, `ReplaceIsExact` |
| `replay_run` | 2 backtests of 2 bars, 3 presses, 1 command waiting, fairness | `PauseHolds`, `ControlsReachLatest`, `EndIsShown` |
| `ui_prompts_frame` | 1 prompt | `FrameRuns` is violated |

Why the bounds are enough. Two runs let a late coroutine or thread of the first meet
the second, which is what every hazard of `LiveRun` needs; a third is there only to
have the first forgotten while its loss thread waits, and is not followed further
(`MCLiveRun.Explored`). Three calls let a timer of a first secret and a prompt of a
second meet a third. Two shares make a partial fill; one fault is one replay or one
failing callback. A frame of `UiPrompts` already holds every combination of what can
happen in it; what a second request adds (the first superseded) is not explored. Two
ids and one subscription make a refused id and a listed one; four operations are a
login, a mode, an edit and a logout; `MCVenueSession` also starts from a live
session at rest with one id listed and subscribed, so that four operations hold a
late unsubscribe, the removal and the return of its id. Two strategies are the one
that is left and the one that is opened, which may have no sidecar, one of its own,
one that names the first, or code that is gone; one edit, one save, one opening and
one mishap give every order of the four. A history of three entries is full within
the operations allowed. The text `xx⏎x` has matches that touch, that overlap once a
character is typed, and that lie on two lines. Two backtests of two bars put a pause
between bars of either.

Deadlock is not looked for where the system may stop: in `SecretRelay` and
`OrderRows` the user owes no order and calls are bounded, in `VenueSession`,
`StrategyFiles` and `EditHistory` the person's operations are bounded and
nothing need be left to do after them.

### Where code and documents disagree

`ui_prompts_frame` is the one TLC refutes here. `modal_layer_esc_system` is put
into the phase ModalInput, declared to be before `secret_modal_input_system`,
and that one is in KeyboardDrain; the phases are chained the other way round
(`ui/input_phase.rs:17`), so no system order exists.

The others were found with these modules, by properties that say what a comment
or document says and that are no longer among the runs. Passing properties
except exactly these cases, where they touch them, and say so.

Live runs and orders:

* `attach()` gives up after 10 s without cancelling: its kernel may start beside
  the next run's, where `engine_controller.py:91` promises one.
* Daily loss is not watched in Replay mode or after a logout, while the run
  trades on; the status a run shows last may be a stale one, pushed by the
  thread that read it first.
* PlaceOrder holds the only worker while it waits for the secret that only the
  worker can deliver (`secret_provider.py:14`), unless the answer was queued
  before; it ends with SECRET_TIMEOUT. A secret submitted after its wait is kept
  without a timer.
* The answer of PlaceOrder, drained after a fill, takes it back
  (`trading.rs:1026`, against the comments at 988 and 991). A fill read before
  the order is registered goes to no row.

Files, list and history:

* The strategy of a restart is the one its cached sidecar names
  (`layout_persistence.rs:526`). A sidecar opened through the sibling fallback
  (1229-1264) is cached as it is, naming another strategy, and one that
  `remove_file` leaves (`menu_bar.rs:1105`) beside a new `app_state.py` is that of
  the strategy before, against the contract at `menu_bar.rs:1096`. If the
  application ends then, without a save or autosave of the layout in between, Save
  after the restart writes the code into the other strategy's `.py`. `SavedIsOwn`
  counts such an end as `mixed`.
* A layout that brings its strategy is deferred before the windows it does not
  list are closed, and they stay (`layout_persistence.rs:1227`, against the
  comment at 1292).
* Undo marks the layout dirty without a time, so the debounce never saves it
  (`strategy_editor.rs:347`).
* From the second Save on the base is the strategy's own sidecar, while the
  Startup window edits the cache: the Save takes the new dates back
  (`layout_persistence.rs:672`, against `docs/wiki/replay.md:100`). A reference
  that does not resolve leaves the scenario before it in force, and Run enabled
  (`scenario_parser.rs:173`, against `docs/wiki/strategy.md:107`). An edit of the
  list in a live mode waits for Replay to be written, and is lost if a layout
  autosave makes the file be read first (`layout_persistence.rs:1676`, against
  `components.rs:800`).
* Typing in two editors within 500 ms is one entry: undo gives the first back and
  redo puts the text of the second into it (`editor_history.rs:207`).
* A text sent to an editor that crosses a keystroke can bounce between editor and
  fragment for ever.

Venue and prompts:

* A login is reported at once, a logout by the next poll, if that differs from the
  poll before: a logout right after a login can stay shown as connected
  (`backend_transport.rs:1239`, against `docs/wiki/venues.md:24`). A list loaded for
  Replay keeps the live universe from being fetched at a login
  (`instrument_picker.rs:637`, against `trading.rs:260`). An id added in the frame
  of a mode switch is not subscribed; ids removed in Replay stay subscribed and
  count against the limit, which then refuses listed ones.
* The 5 s wait for an unsubscribe (`_backend_impl.py:1861`) or a subscribe (1838)
  ends without cancelling. If the id is listed again meanwhile, `subscribe` returns
  at once because the runner still has it (`live_runner.py:71`), and the late
  unsubscribe then drops it (95): it is listed and not subscribed, and nothing asks
  for it again. A late subscribe that fails does the same (84).
  `ListedIsSubscribed` excepts such an id (`skipped`).
* Escape in a frame with a report closes nothing, because the report marks the
  prompts as changed (`backend_sync.rs:54`, against `docs/wiki/orders.md:44`). A
  secret typed for a request that is superseded in the same frame can be
  submitted under the new one.

Backtests:

* The footer never offers Pause: `replay_state` is polled from an engine the
  backtest does not touch (`footer.rs:692`, against
  `docs/wiki/getting-started.md:52`). For the same reason ▶ starts a second
  backtest beside the first, and force stop does not stop the thread. Of two
  runs, the first then waits for ever if it was held.
* A failed run leaves the start-up panel disabled (`backend_sync.rs:429`, against
  `scenario_startup_panel.rs:45`), and ▶| from IDLE always fails.
* An event of an older run overwrites the state of a newer one.

Find and replace:

* The panel takes no focus back when an editor is clicked while it is open: the
  keys go to both, which the comment N1 in `find_keyboard_system` rules out. A
  panel opened over no editor shows the count of the editor before.
* A replacement clicked in the frame of a new text goes by the ranges of the old
  one, and overwrites a keystroke of its frame.

## 4. Fairness

Safety is checked without fairness. For liveness each module assumes weak
fairness of what the program itself schedules, and never of person or venue.

| Module | Fair | Why |
|---|---|---|
| `LiveRun` | worker, each loss thread, evaluation of a fetched snapshot, the loop's queue | threads are scheduled, the loop is never blocked for good, every wait has a timeout |
| `SecretRelay` | worker, each coroutine and timer, the UI's draining | the same; `wait_for` ends after 30 s, the handler after 40 s; nobody has to type |
| `VenueSession` | worker, each system of a frame, the end of the first refresh | a frame runs every system; the requests of a refresh have timeouts |
| `ScenarioSync` | a frame, the deferred copy to the cache | as above |
| `StrategyFiles`, `EditHistory` | the systems that run every frame | as above; autosaves by their timers |
| `ReplayRun` | worker, both drains, each backtest thread | threads are scheduled |

## 5. The proofs

`LiveRunProofs` proves, for any number of runs and any history bound, that the
following hold of every behaviour of `LiveRun!Spec`: `TypeCorrect`,
`SlotIsSingle` (`OneActiveRun`), `NobodyStranded` (`NoStrandedRun`),
`TradingIsWatched` (`LossWatched`), `RailsAreReleased` (`RailsReleased`) and
`StoppedStaysStopped` (the action property `StoppedIsFinal`), and that it
implements `RunLifecycle` (`LifecycleImplemented`). They rest on the assumption
on its constants only. Of these the runs check `NoStrandedRun`, `LossWatched` and
`ImplementsLifecycle`; the others are stated in `LiveRun` and left to the proofs.

None of these is inductive as it stands. The invariant `IInv` adds who may hold the
lock and in which step (`LockHeld`, `Roles`), that run numbers are given in order
(`Numbering`), the status that each step of a start and of a stop implies
(`StartPhases`, `StopPhases`), that a run nobody works on is settled (`Settled`),
and that rails of runs not yet started are absent (`RailsIdle`). With it
`OneActiveRun` follows because the active run's start holds the lock until it is
RUNNING; `LossWatched` because the only steps that release rails belong to the
thread that has just made the run terminal. The refinement maps `status` to the
state machines and `active` to the runs that are registered and not terminal:
`OneActiveRun` makes `active` a slot, and each step of the worker and the loss
threads is then one move of the abstract run in it, or a stutter. The proof has a
step per action, and under it one per conjunct the action can disturb. `IInv` was
model-checked before it was proved.

A second invariant, `KernelInv`, is proved on top of `IInv` and gives
`KernelIsOwned` (`KernelOwned`), `SweptRunsSendNothing` (`SweepIsFinal`),
`TapsAreRemoved` (`TapRemoved`) and `OnlyRunsSendOrders` (`OrdersNeedRun`). Its
heart is the order of the loop's queue. The worker schedules an attach only when
no run is active, and a teardown schedules the stop of its own run, so the queue
is sorted by run number and a run's attach comes first (`QueueSorted`); being
served in that order, a task of an older run waits only if every younger attach
does (`QueueInOrder`). The active run is the youngest (`ActiveIsYoungest`). Hence
whoever detaches finds the controller's kernel to be its own (`KernelPhases`),
and a terminal run's kernel has its stop in the queue or has been stopped. The
one case that needs `MaxHistory >= 1` is a run the history has forgotten: a newer
run has ended after it, the attach of that one has been served, and so has the
stop of the forgotten one. `TasksTearDown` and `SweptTornDown` say that nothing
is cancelled or swept of a run that may still trade, and `TapPhases` that a
detach leaves no listener.

`OrderRowsProofs` proves all the properties of the run `order_rows` and the two
it leaves out, `FrameOnce` and `TagKept`, for any
quantity, any set of quantities the user may change to, and any number of
reconnects, failing callbacks, frames and events (the bounds of `MCOrderRows` are
gone): `TypeCorrect`, `ClosedOnlyIfClosed` (`ClosedIsTrue`), `FillNeverOvertold`
(`FillBounded`), `FramesPushedOnce` (`FrameOnce`), `TagNeverLost` (`TagKept`) and
`FillNeverDecreases` (`FillKept`). They rest on `OrderAssumption` and on
`NoneAssumption` (the marker `None` is none of the values it stands beside). The
argument, conjunct by conjunct of `OrderRowsProofs!IInv`:

- `TypeInv` adds to the types that an answer is pushed only if there is one and
  that the answer to PlaceOrder carries a quantity.
- `FramesSeen`: the key of every frame still in the event channel is in
  `_seen_ec`. A frame is read only when its key is not, hence `FrameOnce`.
- `ClosedSource` says that the log, the answer to the cancel, the results and the
  facade call the order closed only after the venue did; `ClosedTold` the same of
  the two channels and the rows, which copy from those sources.
- `Quantities`: a modify is asked for once, so the quantity the adapter goes by
  (`ref`) is the venue's as long as that is the first one; `Frames`: then what a
  frame says is left and what it says was traded add up to that quantity.
  Together they bound every reported fill (`FillTold`).
- `SeededRow`: only the answer of PlaceOrder replaces a row, and it is drained
  before the row counts as seeded; all else goes through `advance_fill`, whose
  effect on a row is stated once (`ApplyEventRow`, `ApplyUpdateRow`).

`PromptsProofs` is about two components. Of `SecretRelay` it proves the safety
properties of the run `secret_relay`, and `PendingIsAwaited` besides, for any number
of calls and purposes, from `SecretAssumption`: `TypeCorrect`,
`NoWakeupIsLost` (`NoLostWakeup`), `NoOrphanedFuture` (`PendingIsAwaited`) and
`DeliveredIsTimed` (`DeliveredIsBounded`). `OnePlace` says that a request is at
one place only (event channel, prompt, command queue or vault), so the vault takes
an answer once and finds the future either not yet registered or pending;
`Pushed` and `Queue` that no request is on its way before its push and that an
order in the queue has no coroutine yet. `Futures` is the heart of it: an answer
taken before the registration is still stored when `wait_for` looks, because no
timer of another request runs between two awaits of the loop, and an answer
taken later finds the future pending. (`SecretRelay` has names of its own,
`RelayInit`, `RelayNext`, `RelaySpec`, so that one module can extend it beside
`UiPrompts`.)

Of `UiPrompts` it proves `StackAlwaysMirrors` (`StackMirrorsPrompts`) and
`SecretAlwaysForgotten` (`SecretForgotten`) for any set of prompts and any number
of requests, so also for a request that supersedes another, which the run does not
reach. The second is strengthened to hold at every step of a frame
(`NothingTyped`), the first needs only that the secret prompt is not among the
others.

`EscapeAlwaysTakesFront` (`EscapeTakesFront`) needs a frame followed system by
system, for any order of the systems and either way out of the contradiction of
the declared orders. `EscapeInv` says of a frame with Escape only: Escape precedes
every mirror, so the stack it looks at still has the prompts that were open when
the frame began (`CalmSystems`); a mirror that has not run yet has to tell what
Escape or a report did and nothing else (`Waits`), and one that has run leaves
what the theorem says (`CalmPrompts`); a popup runs before the mirrors of the
prompts it yields to (`CalmPopups`).

`StrategyFilesProofs` proves `FilesAlwaysOwn` (`SavedIsOwn`), `CleanAlwaysOnDisk`
(`NothingLost`) and `RestartAlwaysRestores` (`RestartRestores`) for any strategies
and regions and any number of edits, openings, saves and mishaps, from
`FilesAssumption` and `NoneAssumption`. All three are about moments when nothing is
under way, so the invariant says what is under way. `LoadInv`: one message of a load
exists at most, a load that asks for the layout a second time is that of a scenario
only (`Echoes`), and while a file is being opened no window is (`Quiet`). `OwnInv`:
the texts in the windows, in the fragments, in the requests for windows and in the
cache are of the strategy at hand, but for the window that `ApplyPending` is about
to fill (`Refill`), and once the application has ended those in the cache are of the
strategy that the cached sidecar names (`CacheNames`); a save or an autosave copies
from there. `KeptInv`: each of these texts that does not count as unsaved is on the
disk, and a window a layout waits for has been asked for (`AskedComes`), so that its
fragment is not forgotten. `Restoring`: what was left is, window by window, already
shown or in a fragment whose window was asked for once. The lemmas `LayoutIs`,
`LoadIs`, `PendingIs`, `DispatchIs`, `WriteIs`, `RestartIs` and `ExitIs` say once
what each action does, and each conjunct has a lemma per action.

The proof failed at first, and TLC then showed that two properties are false beyond
the bounds of the run. `SavedIsOwn`: code typed under no name is in the cache, its
editors are closed and Save As gives a name to nothing, so nothing is copied; the
application ends with a failing write, the restart shows the old code under the new
name, and Save writes it there. `NothingLost`: a saved edit of a region whose
window is closed comes back with the restart as a fragment without a window, when
the flush at the end failed; Save writes strategy and cache without it, and a layout
without a strategy path opens a window on it, marked as saved though no file has it.
`mixed` now names both (a Save As that is not copied, and the last row of the table
in section 2), and `lineage` counts with a Save As what waits in fragments.

`FindProofs` proves all the properties of the run `find_replace` for any editors,
any texts, queries and replacements of any length and any number of keys, from
`FindReplaceAssumption`: `FocusAlwaysAlive` (`FocusIsAlive`), `ShownAlwaysFound`
(`ShownIsFound`) and `ReplaceAlwaysExact` (`ReplaceIsExact`), and on the way
`MatchesAlwaysOfTheText`. The state part is small. `AliveInv`: windows have
widgets, and every pointer moves to a window or to where another points already.
`MatchInv`: the matches are those that `FindMatches` gives for the text and the
query of the last computation, unless the text has changed since and is to be
searched again. `TextsInv` and `IndexInv` give the types and that the current match
exists; `CalmInv` that a frame which began at rest still has, when the
replacement is built, the text that was searched, whichever systems have run.

The rest is about what the loops of `find_matches` and `apply_replacement`
compute. A loop is a recursive function of a length that nothing bounds, so
that its value exists has itself to be proved: `StepsExist` and `SameSteps` give
one function that steps as the loop does, by least counterexample, because the
provers cannot instantiate an induction rule, and each loop has then a lemma
about every prefix. `FoundAre`: the scan of a line finds an occurrence that
counts exactly when none that counts overlaps it from the left. `LineIs`: a line
is the text between two breaks, hence an occurrence of a query without a break is
in one line (`InLine`), and the absolute places of all lines together are `Places`
(`FoundInText`, `PlacesAre`), whose `CHOOSE` has one solution only. For the
replacement, sorting reverses the ranges, as they come in the order of the text;
splicing from the right then leaves what is left of the last range as it was, and
the text so far is the prefix not yet reached followed by the substitution of
the rest (`ReplacedIsSubstituted`).

(`FindReplace` and `ReplayRun` have names of their own, `FindInit`, `ReplayInit`
and so on, so that one module can extend two components.)

`VenueSessionProofs` proves `TypeCorrect`, `LiveAlwaysHasVenue` (`LiveNeedsVenue`),
`ShownIsAlwaysTrue` (`ShownIsTrue`) and `ListedAlwaysSubscribed`
(`ListedIsSubscribed`) for any instruments, any cap and any number of operations and
reports, from `SessionAssumption` (which has `IsFiniteSet(Ids)`: the subscriptions
are counted). What holds at rest is the end of something that holds on the way.
`SessionInv` speaks of what will be: the venue shown once the reports are drained is
the backend's, or the one the last poll saw (`VenueFollows`); the mode shown then is
the one of the last poll, or Replay with the backend in it or on its way there
(`ModeFollows`); nobody logs in while a live mode or the report of one is about
(`LoginInReplay`); and a listed id will be subscribed once the queue is empty, the
last of the commands about it decides (`ListedFollow`); a call that ends late
changes that only for an id that it makes `skipped` (`LateSettles`). All but
`LiveNeedsVenue` are claimed as long as no command was hasty. The invariant showed a
step in which `skipped` was too small, with one id and six operations, out of the
run's reach: an id that is added, removed and added again in the frame of a mode
switch is unsubscribed after it is subscribed, and the model now keeps it in
`skipped`.

`BacktestProofs` is about two components. Of `ReplayRun` it proves
`PauseAlwaysHolds` (`PauseHolds`) and `LatestIsControlled`
(`ControlsReachLatest`) for any number of backtests, bars, presses and commands,
from `ConstantsAssumption`. Two facts carry it. `InOrder`: startup ids are given
out, queued and started in one order, so the command the worker takes starts a
run above all that have begun, whose events are new (`NewIsFresh`). `Accounted`:
bars shown, the bar past the gate (`Through`) and the step that lies ready
(`Lies`) together never exceed the steps given by more than one, and nothing was
shown while the gate is open; opening the gate settles the account because
`resume` takes the step away.

Of `ScenarioSync` it proves `TypeCorrect`, `EditsAlwaysKept` (`EditsAreKept`),
`RunGetsWhatIsShown` (`RunsWhatIsShown`) and `LockedAlwaysRestored`
(`LockedIsRestored`) for any instruments, strategies and end dates, any sidecars
the files may begin with and any number of operations. `ScenarioInv` adds to them
that a list neither touched nor dirty is the one in the metadata
(`MetadataFollows`), that what was read is out of date only for a reason the model
names (`ReadAgain`), and that a locked list read in Replay is what the file lists,
or will be once the next chain prunes it (`LockedFollows`). A lemma per system of
the chain says what it leaves (`ParseIs`, `SyncIs`, `PruneIs`, `MarkIs`,
`WritebackIs`), and `ChainMakes` composes them into what a frame does; each action
is then one lemma about a frame.

`HistoryProofs` proves `HistoryAlwaysResumes` (`RecordingResumes`) and
`HistoryAlwaysFits` (`RecordFits`) for any editors, texts and positions, any
length of the history and any number of operations, from `EditHistoryAssumption`
(bounds are natural numbers, `None` is no text, window or echo, `Panel` no
editor). `Resumes`: an undo that has given up the recording has its edit in the queue or
on its way to a window. `Truth` is what makes the record fit, and is claimed as
long as nothing is `stray`: the record played from the start never meets an entry
that does not fit (`RecordTells`); one entry at most is being carried out
(`OneAtATime`); the windows are those the record gives up to the cursor, but for
the one window that this entry is about to change (`WindowsTrue`); and each
editor's fragment, its widget, the text on its way and the widget's echo are those
of one of the few stages an edit goes through (`EditorsWell`). An entry pushed at
the cursor cuts the record there, so it has to fit the windows as the record tells
them, which is what the last two give. What a record of any length gives is an
induction over its length: the provers cannot instantiate an induction rule, so it
is proved by least counterexample (`LeastOf`), and `PlayedIs` says that a function
that steps as the play does is the play.

Every inductive invariant was model-checked before it was proved, on the bounds
of the component's run and, where that run fixes the start or the order of
things, on smaller instances without them.

Only model-checked: the liveness properties, which are out of the prover's reach.
Every invariant and every action property that a passing run checks is stated by a
theorem.

## 6. Not modelled, and the plan

Not modelled: the venue health watchdog (one counter on one coroutine; its
notice is an arrival in `UiPrompts`), run artifacts, Python strategy loading, the
historical import (sequential work on files), the kabu adapter, the mock venue (a
test double), the idle shutdown and the backend supervisor's restarts (the
single-process build does not use them), charts, themes and window layout
(drawing). What the modelled parts leave out is named with each of them in
section 2 and in `PROJECT.json`.

About the share of the code: roughly half of the Rust lines are tests inside
the source files, and much of the rest spawns and styles entities; the Python
backend, which `LiveRun`, `SecretRelay`, `OrderRows` and part of `VenueSession`
and `ReplayRun` translate, is as large again. The map counts only the lines a
definition translates.

What is left, most important first:

1. `OrderRows`: a second order sharing the row of the blank id, rows seeded by
   `GetOrders` after a restart, and kabu's cancel-and-renew of a modification.
2. Overlapping cancel and modify of one order in the facade, which read a record,
   await the venue and write it back.
3. Account sync: deduplication, forced resync, and a failing fetch.
4. Market data: bars closed by late ticks, and subscriptions that come and go
   under an await; a contract of bars (ordered, complete) they implement.
5. The rails' arithmetic: orders in flight against the position cap.
6. An abstract session, up or down as a whole, which `VenueSession` implements.
