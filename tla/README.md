# Driveline: a verification project

Driveline is a browser application that plays recorded vehicle logs: video,
plots, maps and 3D scenes over one timeline. Its readers are Rust compiled to
WASM; its application is TypeScript. Modelled here is the application: the worker
that feeds a video decoder, the panel that drives it and the playback loop that
waits for it, which is where most of what is hard lies; the session's store with
its sources, fetches and caches; the worker that keeps the readers; and the
panels, dialogs and drawers as far as they keep state across events. Parsing of
files, rendering and floating-point geometry are not.

Throughout, `W` is `src/apps/web/src/workers/videoDecode.worker.ts`, `VP`
`src/apps/web/src/panels/VideoPanel.tsx`, `PB`
`src/apps/web/src/timeline/playback.ts`, `OPS`
`src/apps/web/src/workers/videoDecodeOps.ts`, `DC`
`src/apps/web/src/workers/dataCore.worker.ts`, `ST`
`src/apps/web/src/state/store.ts`; a number after a colon is a line. Other paths
are relative to `src/apps/web/src`.

Contents: 1 inventory, 2 modules, 3 what the model abstracts, 4 runs and bounds,
5 fairness, 6 proofs, 7 disagreements between the code and what it says,
8 what is not modelled and the plan.

## 1. Inventory

Three threads: the main thread (React, the session store, the panels, the
playback loop), one video-decode worker per video panel, and one data-core worker
that holds the WASM readers. They talk through Comlink: a call is a message on one
port, received in the order of sending, answered by a message. Inside a thread
everything between two awaits is atomic.

### Modelled, wholly or for the greater part

| Component | State | Operations and how it interacts | What is hard | What makes it correct |
|---|---|---|---|---|
| Video decode worker (`W`) | session, decoder, encoded ring, pump flag, reorder buffer, blit queue, canvas, cursor, playback clock, promise chain, seek generation, self-heal flag and counter | `open`, `seek`, `close`, `captureFrameAt` on the chain; `setCursor`, `setPlayback`, `setRenderCanvas`, `clearCanvas` beside it; the decoder's output and error callbacks; reads from the reader; a 5 ms blit clock | every await in an operation lets callbacks, clock ticks and reads of a stream that is gone run; errors retry by themselves | the decoder is fed in order; nothing of an old stream is shown; a paused picture arrives; the last seek wins; every operation settles; errors heal |
| its measure of smooth playback (`videoCadence.ts`) | paints, a ring of gaps, a verdict and its throttled copy | recorded by paints and ticks, reset by play, pause, flush and speed | four events reset four pieces of state | a verdict is about one span of play |
| Encoded stream readers (`OPS`) | position of the reader, first-call flag, the operation queue, four mp4 indexes | `open`, `next(n)`, `close`, over the data-core worker (mcap) or the sample cache (mp4); `makeOpQueue` | two calls of an mp4 `next` share one position across awaits | samples come in decode order, once each |
| Video panel (`VP`) | phase of its mount, last seek target, last cursor sent, seek timer, readiness timers | subscribes to the store; sends `open`, `seek`, `setCursor`, `setPlayback`, `close`; publishes readiness | what it believes of the worker can be stale; unmount while anything is under way | belief and worker agree; the worker's cursor is the timeline's; an unmounted panel leaves nothing open |
| Playback loop, readiness (`PB`, `videoReadiness.ts`) | anchor, last write, frame and timer handles, readiness registry | ticks on animation frames and a fallback timer; writes the cursor; hears every store change; panels publish into the registry, the transport's dot listens to it | its own writes must not look like scrubs; the gate and the decoder wait on each other | it runs when the session plays; each tick moves by the time passed; it never stops for good |
| Session store: transport (`ST`) | `cursorNs`, `playing`, `speed`, `seekEpoch`, hover, shared zoom | `play`, `pause`, `setSpeed`, `setCursor`, `advanceCursor` | notifies its listeners inside each write | clamped; stops at the end |
| Session store: sources and fetches (`ST`, `state/ingest`) | sources, channels, queues of imports, the promise chain, fetches in flight, calibration cache | opens, imports, removals and clears on the chain; inline sources, offsets, bindings and fetches beside it; readers in the data-core worker | the chain awaits at every file while the rest goes on | ids are unique, listed sources are readable, no reader is left behind, an answer is what was asked for |
| Intake of dropped files (`state/bucket.ts` and the import dialogs) | buckets by name and content, what matched what, what a dialog asks | sorts a drop, opens what can be, queues a dialog for the rest | the order of a drop decides what matches | each file ends in one place |
| MP4 sample cache, memory budget (`state/mp4SampleCache.ts`, `memoryBudget.ts`) | samples, fetches in flight, active window, bytes; one account for all caches | workers ask for samples over a relay; the store opens and disposes; memory pressure | `dispose` while fetches are under way; two limits over one memory | the account is exact; the ceiling holds unless everything is in use |
| Data-core worker (`DC`), WASM slab | slabs of readers, private copies on disk with access handles, streams | opens, closes, fetches over one port, each going on after its awaits | handles are given again at once | a reader has its own copy; a handle is the file it was opened for |
| Unknown formats and the agent (`shell/UnknownFormatDialog.tsx`, `llm/engine.ts`, `state/formatRegistry.ts`) | queue of imports, dialog, runs and conversions, registry of recipes | by hand or by the agent; confirmations queue on the store's chain | an aborted or superseded run answers late; two tabs confirm one import | opened once; nothing unverified is registered |
| its sample (`llm/sampler.ts`), a proposed layout (`llm/layout*.ts`, `agent/agentApi.ts`) | slices; proposed panels | plan and read slices; propose, clean and apply panels | small files, limits | no byte twice, both ends there; only known channels, all accounted for |
| Dock, saved layouts, link (`layout/Workspace.tsx`, `state/urlState.ts`) | the live dock and its JSON, bindings, saved layouts, a timer, the hash | user and agent edit, effects rebuild, the page reloads | an effect's own change must not be taken for the user's | the link is the view |
| Events (`state/bookmarks.ts`, `persist/bookmarks.ts`) | events, tag attributes | made, edited, exported, imported | ids made here and in files | an import brings back each event once |
| Panels of channels (`panels/*Panel.tsx`, `panels/shared`) | bindings, awaited answers, what is drawn | effects fetch when their dependencies change | answers land between an update and its rendering | what is drawn is what is bound |
| Plots: merge, axes, gestures (`mergeSeries.ts`, `plotAxes.ts`, `plotZoom.ts`, `PlotPanel.tsx`) | rows, axes and bands, zoomed windows, frames due for scrub and hover | decode, transform, merge; wheel, drag and hover | doubles; three computations of one place; writes once a frame | the merge is exact; the value under the pointer stays |
| LiDAR viewers (`lidarOverlay.ts`, `pointCloudSpinCache.ts`, `ScenePanel.tsx`) | request numbers, spins cached and in flight | refreshes with one fetch outstanding | bindings, cursor and session change under a fetch | the spin shown is the one under the cursor |
| Waiting dot (`timeline/Transport.tsx`) | two timers, the dot as set and as rendered | listens to readiness | a timer fires between an event and its rendering | on exactly if a panel waits |

### Not modelled

| Component | Why not |
|---|---|
| Reader core, log and scene format readers (`crates/data-core`), Data CLI | Sequential transformations of bytes, and floating-point geometry. What the video path relies on of the readers (start at the keyframe before the target) is in `EncodedStream`. |
| Demo, development hooks, performance marks | No state of the system's own. |
| End-to-end tests, scripts, tools, sample data | Outside the program; the tests were read for how it is used. |

`PROJECT.json` lists all components with their files and what of each is left out,
and every hazard at the line where it bites with the properties that look for it.

## 2. Modules

```
 FrameQueue        frame path as functions: reorder buffer, blit queue, canvas
   |
 FrameBlit         what may be shown, whatever the decoder does   (abstract)
   ^ implements
 VideoWorker  -- EncodedStream (readers), FrameQueue
   | implements
   v
 StreamControl     what a panel may rely on of its worker         (abstract)
   |
 VideoPanel        main thread's side, beside a StreamControl

 PlaybackLoop      the playback loop and the store's transport
   |
 PlaybackGate      the loop, the panels' readiness ticks and the workers' clocks
                   and feed gates in one unit of time, over FrameQueue

 MCSessionStore    SessionStore | Intake | DataCore
 MCSampleCache     SampleCache | Cadence
 MCShell           FormatAgent | Sampler | Workspace | EventTags | Proposal
 MCViews           FrameBlit | PlaybackLoop | DataPanels | Gestures | WaitingDot
                   | CloudViews | PlotMerge | PlotBands
```

**FrameQueue** translates the helpers of the frame path (`emitFrame` W:1010-1060,
`releaseReordered` W:420, `blitForCursor` W:636, `flushBlitQueue`, `paintBlack`)
as functions on a record `b` of the variables they share. A frame is its
timestamp. Both queues are sets: the reorder buffer is kept sorted and the blit
scans the whole queue, so nothing depends on an order a set would lose.
`emitted`, `dropped` and `ordered` are history.

**FrameBlit** is the abstract specification of the canvas: frames of the open
stream may come out in any order (up to `MaxDisplacement`), sessions come and go,
the cursor jumps. It promises what is shown.

**EncodedStream** is the reader. An mcap `next` is one request, answered in order;
an mp4 `next` is a call with its own progress (`begin`, `sample`, `clear`,
`reply`) over the position it shares with other calls.

**VideoWorker** is the worker as written. JavaScript handlers call each other
synchronously (`onFrame` → `maybeRefill` → `feedFromRing` → `pumpEncoded`), so each
is a function from a record of the variables (`World`) to a record, and an action
applies the whole handler. `ops` is the promise chain, `pc` what its head awaits:
`closing`, `opening`, `priming`, `probing`, `capturing`. `Quiet` says that a
microtask is never overtaken by a message or a callback. It is checked to implement
FrameBlit (`ShowsAsFrameBlit`) and StreamControl (`RunsAsStreamControl`).

**StreamControl** is the worker seen from the panel: a queue of operations carried
out one at a time, where the stream is, whether it is broken. It hides the reader,
the decoder and the frames.

**VideoPanel** is the worker effect, the store subscription, the debounced seek,
the coalesced cursor and the retry of `VP`, with the store's cursor, the port
(`inbox`), the worker's playback clock (`setCursor`, `setPlayback`,
`blitClockTick`) and StreamControl for the rest of the worker.

**PlaybackLoop** is `startPlaybackLoop` with the five transport actions of the
store. The subscription runs inside each store write, so `StoreBecomes` includes
what the loop does on hearing it.

**PlaybackGate** composes PlaybackLoop with, per panel, the readiness tick
(`computeVideoReady`, coverage, the stalled clock, `clearCanvas`) and the worker's
blit clock, feed gates and frame path. Time passes in units once everything due in
a unit has happened, in any order.

**SessionStore** is the store's promise chain (`ops`; `run` is where its head
awaits) beside everything that does not wait for it. The slab of readers in the
data-core worker is external: it gives the handle freed last to the next reader, and
calls over the port are answered in the order they were sent, so that a close or a
summary is answered after the fetches and calibrations that were asked for before it.
What the code gets wrong is recorded item by item, so that a property can name what it
does not promise and still holds of everything else: in `env` the readers nobody will
close (`orphans`), those of a file removed together with an inline source of its id
(`lost`), and the ids inline sources took while a batch was being opened (`twins`); on a
fetch that its source's offset has `moved` since it was sent, on a caller and a
calibration that they came `late`: after such a move, or after the close of their source.

**Intake** takes one drop through `routeFiles`, the opens and the three dialogs:
each file moves from `todo` to a bucket, a source, an error or `pending`.

**DataCore** has the port, the calls that await (`calls`), the slabs with their free
lists, and the private copies: on `disk`, with an `access` handle, and by handle in
`backings`.

**SampleCache** has per opening of an mp4 its cache (`mem`), per panel or capture a
`reader` with its phase, the shared account, and the store's list of sources. A
request over the relay takes effect when it is answered.

**Cadence** measures what the worker paints. Ratios are compared without division.

**FormatAgent** has the queue of unknown files, the `form` of the dialog with its two
tabs, `tasks` (runs of the agent and conversions, which outlive the dialog that
started them), the store's `chain` of confirmations and the registry. What the
agent says is any answer at any time. **Sampler** plans and reads the sample, a
slice at a time. **Proposal** computes the heuristic's panels from a manifest,
cleans a model's, and binds the checked ones one after the other.

**Workspace** has the stored `layout` and the live `model` of the dock, and `built`,
`ignore` as the effect of `Workspace.tsx` keeps them; `hash` and `timer` are the
link's. **EventTags** has the events, the attributes and the file last exported.

**DataPanels** is one panel of any of five kinds. `dirty` says that the store has
changed and the panel has not been rendered; only answers that were already due land
in between. **Gestures** has the pointer over two plots and the track, with what is
due at the next animation frame. **WaitingDot** has the two timers, the dot as set
and as rendered. **CloudViews** has the scene panel and the overlay over one cache of
spins. **PlotMerge** takes a fetch through decoding, transforms and the k-way merge,
an iteration at a time, on a grid of what a double resolves, and compares the result
with a definition by sets. **PlotBands** computes in exact fractions which band is hit,
what is drawn where, and what the wheel does.

The four MC modules above run their parts one at a time: the parts share no
variable with each other, only with the store, and each module holds the piece of
the store it reads and writes (the session's range in Gestures, sources with offsets
in DataPanels). A run of all parts at once would visit the product of their states
and no behaviour of any part that is not in the run; where components do interact
through more than that they are composed: VideoPanel with StreamControl, PlaybackGate
with PlaybackLoop, DataPanels with the store's fetches, SampleCache with the store
and its readers, CloudViews with the cache.

The modules that an MC module instances get their constants from constants of the MC
module (`CoreFiles`, `IntakeDrops`, `DockTabs`, `LoopEnd`, ...), to which the cfg gives
values: what is proved of an instance is proved for all of them.

**MCVideoWorker** gives the samples of the worker's runs, a B-frame after its
reference, keyframes at 1 and 4, and their plans.

Operators with `\* Mutant:` above them are plausible wrong versions of the
definition below; `PROJECT.json` pairs each property with one that breaks it.

## 3. What the model abstracts

Worker:

* `seekGeneration` is a counter compared when a seek starts; it differs exactly if
  a newer seek waits behind, which is how `Superseded` says it.
* `closeInternal`'s `decoder.flush()` and `ops.close()` are one await; so are the
  awaits of an mp4 `open`. No handler distinguishes them: the session is already
  gone, or not yet there.
* A capture decodes with a decoder and a reader of its own; here it occupies the
  chain for as long as it likes.
* The answer of `isConfigSupported` is remembered per codec; one stream has one
  codec, so `probed` is one flag. An unsupported codec and a priming read that
  rejects end the operation alike (`PrimeFails`).
* `decode()` throwing on the spot is modelled for the priming feed; elsewhere it
  has the effect of the decoder's error callback, which is modelled everywhere.
* A read of a stream that is gone may return at any later time.
* The decoder is external: it consumes chunks in order, holds `DECODER_HOLD` frames
  before it outputs one, outputs in decode or presentation order, and may fail at
  any time while it has work. Once closed it calls back no more.
* Calls of the worker's API arrive at any time, with any arguments of `Cursors`;
  the order in which a panel sends them is VideoPanel's subject. While playing,
  the clock may move the cursor anywhere in `Cursors`, which over-approximates it;
  PlaybackGate has the clock itself.

Panel: one mount of one panel (each mount creates a worker of its own and terminates
it). A unit of time is a step of the cursor; the worker's clock is any position up to
its cap. The port is FIFO. `acts` bounds what the user does and records whether every
jump was patient: it waited for what was under way and went `SETCURSOR_DELTA` or
further.

Gate: one stream from the start of the session, all frames at one rate, status
messages coalesced to the newest (the panel keeps only the newest), no seeks and no
rewind (they belong to VideoPanel), coverage lost past the end of the stream.

Sources and samples: a channel is named by its source; a file is its name, kind and
range; a sample is its number and its size. What a reader or a recipe makes of a file
is an input. A call to the data-core worker that fails does so with its answer.

Views and shell: times and positions are small integers; a label, a colour or a
prompt is left out; a React update is rendered before the next event; a layout is its
tabs and one bit of arrangement; a recipe is its name and whether it passes the gate
on the whole file. Writes to `localStorage` succeed.

Left out everywhere: wording, logging, the HUD, counters that are only displayed.

## 4. Runs and bounds

| Run | Module | States | What it shows |
|---|---|---|---|
| `worker` | MCVideoWorker | 128 k | log and mp4 streams under opens, seeks, retries, closes, captures, cursor moves, playback, black-outs and late canvases, with failing opens and reads, decoder errors and a `decode()` that throws: fed in order, from one stream; errors are healed; the chain drains; a paused log panel gets its picture; implements both abstract specifications |
| `panel_hasty` | VideoPanel | 1.5 M | scrubs and toggles at any moment after `open()`: belief and cursor agree |
| `panel_faults` | VideoPanel | 202 k | everything a user and the decoder can do, at any moment of the mount: last seek, clock, close |
| `playback_gate` | PlaybackGate | 291 k | the gate and the feed do not wait on each other; playback ends even if the decoder dies |
| `session` | MCSessionStore | 270 k | opens, imports, removals and clears with readers that fail, beside inline sources, offsets, fetches and calibrations; the files of a drop; readers and their copies |
| `sample_cache` | MCSampleCache | 555 k | two mp4 caches with memory pressure, failing reads, sources removed and cleared under their streams; the measure of smooth playback |
| `shell` | MCShell | 726 k | unknown formats by hand and by the agent, its sample, a proposed layout; the dock, its link and reloads; events and their files |
| `views` | MCViews | 951 k | the canvas, the loop, panels of channels, gestures, the waiting dot, LiDAR viewers, merges and value axes |
| `seek_races`, `slow_stream`, `mp4_stale_read`, `enum_cap` | | | disagreements, section 7 |

The properties are stated and explained in the modules. Those that take the most
steps to break, and that a reviewer of the code would argue about:

* `FedInOrder`: each chunk fed follows the one before it, from a keyframe, across
  the priming batch, the ring, seeks and stale reads.
* `LogPausedPicture` (liveness): while paused nothing but an arriving frame or batch
  asks for more, so one missed `feedFromRing` leaves the canvas without a picture
  for ever.
* `ErrorIsHealed`: no latched error outlives the chain before the attempts are used up.
* `BeliefHolds`, `PatientCursorFresh`: what the panel's duplicate guard and its
  coalescer compare with is what the worker has.
* `HealthyNeverStalls`, `PlaybackEnds`: the circle timeline → panel → picture →
  feed → cursor has no deadlock while the decoder works, and a dead one does not
  hold the timeline for ever.
* `SourcesReadable`, `ReadersOwned`: of a file and the handle it was given, through
  failing summaries, removals and clears beside other acts, the reader lives exactly
  as long as its source. `IdsUnique`, `CalibrationCurrent`, `AnswersExact` except single
  ids, calibrations and callers, those a race of section 7 has caught, and hold of all
  others in the same behaviours.
* `CopiesOwned`: handles are given again while closes of their last holder still
  remove its copy.
* `AccountExact`, `SharesCeiling`: the bytes counted are the bytes held, those of a
  disposed cache included, and a cache that takes in a sample leaves all within the
  ceiling or has given up what it may.
* `VerifiedOnly`: of drafts, earlier candidates and aborted runs, nothing gets into the
  registry but a candidate whose own report passed.
* `ImportIsFaithful`: whatever was edited, removed or imported since, an exported file
  brings back each of its events once.
* `ShowsBound`, `LoadEnds`, `SceneShowsSpin`, `OverlayShowsSpin`: what is drawn, and
  what is waited for, belongs to the binding, the window and the cursor of now.
* `MergeExact`, `AnchorFixed`, `SlicesCover`, `ProposalSound`: algorithms against what they
  are to compute, over all small inputs. `MergeExact` says of a merge with gaps where
  alone its axis goes back.
* `CadenceExact`: a verdict is about one span of play, and says smooth exactly if fewer
  than one gap in twenty of the ring is doubled.

The modules state more than the runs list. These hold in the runs' instances, and can
be had by naming them in the cfg: of `worker` `TypeOK`, `NeverDrops`, `LastSeekWins`,
`HealInFlightTracked`; of the panel `PanelTypeOK`, and `ComesToRest`
under `FairPanelSpec`; of the gate `GateTypeOK`, `PictureNotAhead`; of `session`
`BindingsListed`, `CursorInRange`; of `sample_cache` `Bounded`, `PinnedLast`, `ReadOnce`,
`RangesTold`, `SpinnerOwned`; of `shell` `DockIsStored`, `ActiveIsStored`, `EventIdsUnique`,
`TagsRetracted`, `WaitsForSomething`; of `views` `TypeOK`, `NoDueFrameWaits`,
`ReorderBounded`, `PlotOffsets`, `GesturesEnd`, `WindowsSound`. All but
those of the gate and `NeverDrops`, `ComesToRest`, `EventIdsUnique`, `TagsRetracted`,
`GesturesEnd` and `WindowsSound` are proved for every instance (section 6).

Bounds, and why they are enough:

* Worker: eight samples in two groups of pictures, so that streams start at either
  keyframe and a seek crosses them; priming and ring batches of two, a ring target of
  two, so that the pump stops and resumes several times in a stream; a reorder window
  of one with B-frames displaced by one; cursors at and between frames; three
  operations, so that a burst of two seeks can meet a third operation in any state; two
  faults, so that a retry can itself fail. `MAX_QUEUE` is the least the premise of
  `NeverDrops` allows (the code's 16 against 8 + 4 is looser). `Cursors` are {5, 9}: a
  pause does not refill, so a cursor below the stream's first frames would rest
  without a picture to ask for.
* The worker's `Plans` say what a behaviour may contain: a played and scrubbed log
  whose decoder fails, a log whose opens and reads fail, a scrubbed mp4, an mp4 over a
  black or late canvas. Left out is what section 7 says breaks a property:
  black-outs where a paused picture is claimed, and on mp4 the clock ticks and cursor
  moves that start a pump beside the priming read.
* Panel: five positions with a coalescing distance of two (so that a cursor can lie
  between two sent), a scrub threshold of four; two positions where the whole
  mount and faults are explored. Three acts, three calls on the port.
* Gate: `FrameEvery` 2, a hold of 4, a margin of 1, look-ahead 4 and ε 2 are on the
  boundary: after a hold the worker has shown up to `hold` frames behind the newest,
  and what lets it feed again is `hold * FrameEvery - ε - margin <= LOOKAHEAD`. With the
  margin removed the run fails, so it is the tightest instance in which the design
  works; `slow_stream` is the code's own constants (in units of 100 ms) just
  past it.
* Session: nine plans of four to six acts each, one for each group of acts that can
  meet: same-named logs with inline sources, a bound panel whose source moves and goes,
  an import of each queue, calibrations, a shared slab, and faults. Two names suffice
  for a collision and its resolution, two offsets for a change, eight handles are never
  used up. Drops are all triples of a video, its sidecar, a table and one odd file of ten
  kinds, in every order, and quadruples with two tables. The core gets five files of
  the four ways to read and four calls: two opens whose copies overlap, a close and a
  reopen.
* Sample cache: three samples of sizes 2, 1, 3 against a budget of 2, a floor of 3 and
  a ceiling of 4: one sample can exceed a budget, two caches the ceiling, the pinned
  window the floor. Two openings, two handles, a panel and a capture, an index cache of
  one: every replacement happens. Cadence has a ring of 22 gaps, so that one doubled
  gap is fewer than one in twenty of a full ring and more of one not yet full; play starts
  with no gaps, with 20 and with 22 even ones, and five acts follow: the ring wraps, and
  each side of both limits is reached.
* Shell: one import with two tasks of up to three tries and three acts, so that a run
  aborted and its successor overlap; a dock of a default and a new tab, one saved
  layout, one link and four acts with reloads; three events with files of two
  and three entries, repeated ids among them; all manifests of two channels and those of three and four that fill or
  overflow panels of two; files of 0 to 40 bytes under six plans of slices.
* Views: a panel with three channels of which two can be bound, five store updates;
  two plots and the track, ranges that overlap, three acts; two video panels; three
  spins of two clouds over a cache of two, five acts; every fetch of up to three
  samples at four distances, with one that is no number, on grids of 1 to 3, with an
  epsilon of 1 and of 2, so that samples also follow a gap within the epsilon; three
  channels over three axes, at the edges of three bands, two acts.

## 5. Fairness

* `FairSpec` (VideoWorker): requests are answered, the chain runs, the decoder works
  off its queue. Calls of the API and faults are owed nothing. Its conjuncts are weak
  fairness, `[]<>~ENABLED A \/ []<><<A>>_vars`, with the enabling condition written
  out, since TLC would evaluate whole handlers to find it.
* `FairGateSpec`: time passes for ever. A unit holds finitely many steps, and every
  step due happens before the unit passes: ticks are driven by animation frames and
  the 16 ms fallback timer, which the browser keeps running for a visible page.
* `FairPanelSpec`, `FairSpec` of SessionStore: messages are delivered, the worker runs,
  timers fire, promises resolve; the user, and what fails, are owed nothing.
* The other runs check safety only; where something must not be left waiting they say
  so as a safety property (`LoadEnds`, `OverlayShowsSpin`: what is awaited is on its way).
  `CHECK_DEADLOCK FALSE` is set where a run's bound on operations, acts or toggles lets
  the system really stop; all runs have one.

## 6. Proofs

Proved with TLAPS for every value of the constants the assumptions allow. The
inductive invariants were checked with TLC before they were proved.

| Module | Theorems | Argument |
|---|---|---|
| `Views_proofs`, of FrameBlit | `TypeCorrect`, `DueFramesBlit`, `ReorderWindow`, `PausedPicture`, `PictureMovesForward` | `IInv`: the frame record is consistent (`BlitInv`), the session has its type, and with no session no frame is queued. Each function of FrameQueue gets a lemma saying that it keeps `BlitInv` and what it does to the picture; an action then cites one or two of them. The arithmetic of the window (the released are the least, the kept at most `keep`) is an argument about finite sets, by well-foundedness of inclusion: no fold or recursion is involved. |
| `Views_proofs`, of the loop | `LoopInductive`, `LoopTypeOK`, `LoopRuns`, `LoopTicksAtSpeed` | `Anchored`: while armed, anchor plus time played is the store's cursor plus the time since the loop last looked, at the store's speed, and the loop's last write is the store's cursor, so that a scrub never passes for it. `TicksAtSpeed` follows in one step. |
| `VideoPanel_proofs`, of StreamControl | `TypeCorrect`, `LastSeekWinsHolds` | `LastSeekWins` speaks of an empty chain only. `LastDecides` is what holds on the way: the last operation of the chain that is not a capture decides where the stream ends, and it is the one asked for last; without one the stream is there already, or is not open. `StageOK` says what the running operation has done. The sequence lemmas say what appending and popping do to the deciding operation. |
| `VideoPanel_proofs`, of the panel | `PanelTypeCorrect`, `PanelImplementsControl`, `PanelLastSeekWins` | The calls on the port are restricted to those a panel sends (`Sent`): each asks for one of StreamControl's `Requests`, so every step of the panel and its worker is a step of StreamControl or leaves it alone. `LastSeekWins` is then inherited. |
| | `PanelPlaybackAgrees`, `PanelGoneIsClosed` | Neither property is inductive: both speak of an empty port. `WillPlay`: the last `setPlayback` on the port, or the worker's clock if there is none, agrees with the session; before `open()` has answered only a pause must, since the hand-off reports a session that plays. `GoneLeaves`: after the unmount a `close` with no `open` behind it is on the port, or on the chain, or the stream is shut and nothing still asked for can open one. The last call of a kind on a port (`LastIn`) is what these and the next two arguments share. |
| | `PanelBeliefHolds` | `Believes` follows `open()` from the port to the chain to the answer, where it is alone until the panel is open; from then on the last seek on the port, or with none the operation asked for last, has the target that the panel remembers. Assumed is that the user waits for `open()` before scrubbing and asks for no retry, and that nothing fails (`Undisturbed`): each of these moves the stream without the panel's record, and TLC shows the belief wrong when it is allowed. |
| | `PanelCursorFresh` | `Fresh`: nothing on the port or the chain lies past the session's cursor, and in a paused session the last call that moves the worker's cursor, or the cursor itself once none is left, is the session's. Assumed is only that no decoder fails: a self-heal seeks to where the worker had run ahead, and with it TLC finds `PatientCursorFresh` violated. What is proved is stronger than the run's property, which allows for the coalescing distance. |
| `Views_proofs`, of the dot | `DotFollows` | `DotAgrees` speaks of a dot at rest. `Pending` is what holds on the way: of a panel that waits and no notification due, the dot is on or the timer for it set; of none that waits, that timer is not set, and a dot that is on has its other timer set. |
| `Views_proofs`, of the LiDAR viewers | `SceneShowsCurrent`, `OverlayNeverHangs` | `CloudInv`: every waiter awaits a read under way, of the spin it asked for, under a request number not above its viewer's (`WaitsFit`); of a scene whose times are there, `last` is the spin under the cursor, and the newest request, unless it failed, either waits for that spin or has shown it (`SceneFits`); an overlay that is busy has its waiter, and what it shows is what it takes for current, unless it was asked for under another binding (`OverlayFits`). |
| `Views_proofs`, of the panels | `PanelShowsBound`, `PanelLoadEnds`, `PlotFollowsOffsets` | `PanelInv`: what a slot draws and has gathered belongs to the key the slot was last rendered with, and what it still waits for is in flight (`SlotFits`, relative to that key, so that it survives every store update); once nothing is dirty the key is the store's. Which is why `ShowsBound` and `LoadEnds` are promised between renderings only. For offsets, every read on its way and, for a plot that is rendered, what it has gathered and draws was asked with the source's offset of now, unless it changed under the read (`FlightsCurrent`, `PlotCurrent`). |
| `FiniteFolds` | lemmas | What the proofs below need of least and greatest elements, of sums over sets, and of folds over sets and sequences. The induction theorems of the library take an operator as a parameter, which the provers cannot instantiate; these lemmas argue by a least counterexample instead, which exists because inclusion of finite sets is well-founded. |
| `SampleCache_proofs` | `CachesInductive`, `CachesTypeOK`, `AccountIsExact`, `CacheIsBounded`, `SamplesReadOnce`, `TimelineIsTold`, `SpinnerHasOwner`, `CeilingIsShared`, `PinnedGoLast` | `CacheOK` of each cache: its entry in the shared account is the weight of what it holds and within the hard ceiling, a sample is read as often as it is in flight, and the timeline has been told of what is held or will be. `TotalOK`: the total is the sum of the entries, of which an action changes one. `LitOwned`: a spinner has a stream that will put it out. The lemmas on eviction (`Evicts`) say what its two passes leave, and those on sums and folds how much that is. |
| `SessionStore_proofs` | `StoreInductive`, `StoreTypeOK`, `ListedAreReadable`, `HeldAreOwned`, `IdsAreUnique`, `CachedAreCurrent`, `AnswersAreExact`, `CursorStaysInRange`, `BoundAreListed` | Who holds a reader: the sources listed (`ListedOK`), those a batch has opened and not listed (`NewOK`), the one whose summary is awaited (`PendingOK`); no two of them the same reader, and no reader without one of them (`HeldOK`), but for the orphans and lost readers that `env` lists; two sources share an id only if it is one of its twins. A batch knows the ids it must not give again (`BatchOK`), and what is being closed is still what it was (`ClosingOK`). A load that is not late carries the file of a source still listed (`LoadsOK`); a fetch under way that of the source listed under its id, if there is one, and its offset unless that has moved (`FetchesOK`). TLC checked the invariant on the plans of the run and on two wider ones, 4.0 million states. |
| `SessionStore_proofs`, of DataCore | `CoreInductive`, `CoreOwnsCopies` | `CopiesOwned` speaks of the readers; a handle is given again while the close of its last holder still removes a copy, so `CoreInv` follows everything that may name one: free slots are empty and listed once (`VacantOK`), a close is the last message about its reader, and what the store holds is not being closed (`PortOK`, `HandlesOK`), `backings` lists the copies of exactly the readers that have one (`BackingsOK`), and a copy belongs to one reader or one call under way, is on disk, and has an access handle exactly if a reader owns it (`CopyOK`, `DiskOK`). A copy is made by a message of its own (`CountOK`), so that numbers never run out. |
| `Intake_proofs` | `FilesEndOnce` | By counting. `OnePlace`: over all the places a file can be in (not bucketed yet, kept as a sidecar, among the mp4s, in one of ten buckets, refused, open, given up, queued for one of three dialogs, timing a video) its occurrences sum to one, or to none for a sidecar that a later one of its name has replaced. Each action moves an occurrence from one place to another. `VideoOK` and `FitOK` carry what times a video: one that waits for timestamps has none, one that is open has a time for each frame, and while a sidecar waits so do the videos of its name. |
| `FormatAgent_proofs`, of the agent | `AgentInductive`, `AgentTypeOK`, `ImportsOpenOnce`, `RegisteredAreVerified`, `WaitsAreAnswered` | `OpensOnce`: an import that was opened has left the queue, and the one being opened was not opened before, although it may have been cancelled since (`OpenedOK`). `VerifiedOnly`: what the agent confirmed and is no draft passed (`EntryOK`), because the run on the screen that offers it is the one shown, over, and ended without an error, which it can only with a last recipe that passed (`TasksOK`). |
| `FormatAgent_proofs`, of the dock | `DockFollowsStore`, `ActiveFollowsStore`, `LinkFollowsView` | `DockInv`: unless an edit was swallowed by `ignore` (`missed`), the live dock is the one the effect built last (`DockBuiltOK`), from which `DockIsStored` follows; the layout marked active is saved, and is the stored one; and with no write due the link is the view (`LinkIsCurrent`). |
| `VideoWorker_proofs` | `WorkerInductive`, `WorkerTypeOK`, `WorkerOnlyThisStream`, `WorkerErrorIsHealed`, `WorkerHealInFlightTracked` | `WorldInv` is what every handler keeps of the record it is given: of the chain, that the one self-heal in it is the one `selfHealInFlight` speaks of (`ChainOK`); of the stream, that one not open leaves nothing but a call of its reader, and one that ended drains once (`StreamOK`); of the frames, that the decoder of this stream put them out (`FramesOK`); of the reader, that it stays in bounds although two calls may share it (`ReaderOK`). `StepState` and `StageOK` tie the record to what the head of the chain awaits, and `HealOK` says that a latched error has a self-heal on its way or has used up its attempts. Each handler gets a lemma saying what it leaves; a handler that calls others cites theirs, as in the code. |
| | `WorkerFedInOrder` | `FlowOK` follows the chunks from the decoder backwards: what was fed, the ring, the batch the pump reads, the position of the reader, each behind the one before it; and of what the decoder holds, nothing it has put out lies behind by more than the stream's own order. The hypothesis `Calm` is that no call moves the cursor of an mp4 stream while it primes; it holds of every mcap stream. Without it TLC shows the property false (`PrimedWhileMoving`, section 7): the priming read and the pump share a position. |
| | `WorkerRunsAsStreamControl`, `WorkerShowsAsFrameBlit` | The two refinements, action by action: initial states map to initial states, each handler to a step of the abstract specification or to a stutter. The first needs `StageOK` only; the second also that a frame never comes out twice and that those still held are displaced by no more than `MaxDisplacement`, which is `FlowOK` and a count of the samples between two frames (`OvertakenBound`), so it has the same hypothesis `Calm`. |

Assumptions are the named `ASSUME`s of the modules (`Pts` a finite set of naturals,
`Times` an initial segment of them, positive speeds, ...); TLC evaluates each on the
runs above. `LastSeekWins` for the worker itself follows from the theorem of StreamControl
and the refinement `WorkerRunsAsStreamControl`, and what `Views_proofs` shows of FrameBlit's
canvas holds of the worker by `WorkerShowsAsFrameBlit`: both chains of section 2, from the
worker up to what a panel may rely on, are proved.
The proofs of a module that an MC module instances stand in a module that extends the MC
module, about the instance (`Core!Spec`, `Panel!Spec`, ...) and the property under the name
the run checks it by.

What the proofs found in the models: the answers that fetches, calibrations and summaries
get could not be shown right while a close might be answered before a call sent earlier;
messages on one port are answered in order, which the model now says. A calibration asked
for under an id that an inline source shares is cached under either;
`CalibrationCurrent` excepts it as late. The coalescing distance of the panel must
be positive, or no two cursors are within it (`PanelAssumption`). The worker's reader had a
type too wide: two calls can share it, and that neither takes a sample past the last one
is an argument about both (`ReaderOK`), of which `ReaderState` (at most `N + 2`) is the
outcome.

And in those of the last components: DataCore numbered its calls
by the messages sent so far, not by the one being handled, so that two calls on the way
for one file could be one and the same element of `calls` (`Number`). `Key` of DataPanels was
a CASE whose arms overlapped; TLC takes the first that holds, the definition promises
none. A lane of a plot called like the slot of the whole panel would share its view, so
channels are assumed to be called otherwise (`PanelAssumption`). CloudViews let a waiter
look its spin up by time again when the answer came, where the closure of the code keeps
the index it asked with. An empty drop is not one Intake is given (`IntakeAssumption`). What takes some
elements out of a list is written as a fold (`Left`, `Without`), which these lemmas can be
used on, and not with `SelectSeq`, of which the provers know nothing.

Model-checked only:

* liveness (`LogPausedPicture`, `ChainDrains`, `PlaybackEnds`), since fairness and ENABLED
  are out of the prover's reach;
* `HealthyNeverStalls`: it holds of some constants and not of others (`slow_stream`), and the
  step of time of PlaybackGate, which asks whether anything is still due, needs an
  invariant that relates the picture, the feed and the cursor to the margin;
* `CadenceExact`, `MergeExact`, `SlicesCover`, `ProposalSound` and `ImportIsFaithful`: what Cadence,
  `PlotMerge`, `Sampler`, `Proposal` and the merge of EventTags compute is a recursion over
  data or sorts it, and is compared with its definition on small inputs;
* `AnchorFixed` of PlotBands, which is about exact fractions: products of variables.

## 7. Disagreements between the code and what it says

Each of these is a run that TLC ends with a counterexample (`findings` in
`PROJECT.json` quotes the lines):

* `seek_races`: a seek raises the worker's cursor when it starts (W:945), not when it
  was asked for, after a newer, smaller cursor may have been received; the seek that
  follows never lowers it.
* `slow_stream`: below some 2.75 frames per second the reorder window holds the picture
  back by more than the readiness ε, the held timeline pins the worker's clock, and
  the feed does not resume: playback waits for itself until the five-second
  stall timeout.
* `mp4_stale_read`: a read of the old mp4 stream that comes back after a seek leaves at
  the generation guard (W:786), and nothing pumps the new stream: a paused panel keeps a
  picture before its cursor.
* `enum_cap`: a proposed lane of more than `MAX_PLOT_SERIES` enum channels cannot be bound
  (`llm/layoutSanitize.ts:73`), and stays empty.

Stated in the modules with the words they contradict, and violated in the instances of
the runs (name the definition in the cfg to see how):

| Definition | Module | What the code does |
|---|---|---|
| `StreamServesCursor` | VideoPanel | The panel skips a seek to its last target (VP:1149) and the worker one to where its stream starts (W:1530), although playback has moved the stream past it: Home after playing from the start leaves the later picture. |
| `IndexOfSource` | SampleCache | The index cache of the video worker is keyed by handle (`OPS:173`), which the slab gives again: a panel can read a new mp4 with the index of a removed one. |
| `GoneHoldsNothing` | SampleCache | A fetch that lands after `dispose()` puts its bytes into the disposed cache and registers it again (`state/mp4SampleCache.ts:215`). |
| `CalibrationsFreed` | SessionStore | `CLOSE_METHOD_BY_KIND` (ST:324) has no entry for calibrations: their readers stay. |
| `StreamsOwnFile` | DataCore | A stream the decode worker has not closed keeps a handle, not a reader, and reads the next file of that handle. |
| `NothingHidden` | Intake | Of two sidecars of one name the first vanishes without a word (`state/bucket.ts:146`). |
| `PreviewIsBasis` | Intake | An epoch offset typed for a table is narrowed to a double on its way to the reader (`tabularImport.ts:173`). |
| `EscapeClosesOne` | Intake | Escape is heard by every open dialog (`useEscape.ts`). |
| `AbortReaches` | FormatAgent | The `finally` of a run nulls the controller of its successor (`UnknownFormatDialog.tsx:612-614`), which can no longer be aborted. |
| `ReloadRestores` | Workspace | With nothing worth sharing the hash is left as it was, and a reload brings the old view back (`urlState.ts:280`). |
| `OffsetsShown` | DataPanels | Only a plot reads again when a source's offset changes. |
| `MapFitted` | DataPanels | A binding that replaces another is fitted to the old track, still drawn (`MapPanel.tsx:279-304`). |
| `DotNeverStuck` | WaitingDot | A notification between a timer and its rendering sees the old dot (`Transport.tsx:69-97`). |
| `StaleSpinDropped` | CloudViews | The overlay's request number does not move with its binding (`lidarOverlay.ts:124`). |
| `OfThisSession` | CloudViews | A spin fetched before a clear is cached for the next session (`pointCloudSpinCache.ts:89`). |
| `AxisAscends` | PlotMerge | A sample that follows the one before it by more than the gap threshold, but by less than the threshold and the epsilon of the marker that starts the gap, comes after that marker: `xs` goes back (`mergeSeries.ts:231-235`, `251-267`), where the test asks for a strictly ascending axis (`mergeSeries.test.ts:310`). |
| `GapShown`, grids above 1 | PlotMerge | On epoch seconds the marker that starts a gap is the double that ends the hold, for thresholds below some 0.12 s. |

Seen while modelling:

* Worker. `openInternal` publishes the session before it awaits the priming read (W:981),
  so on mp4 a cursor move or clock tick starts `pumpEncoded` on the same reader and the
  decoder is fed a gap (`PrimedWhileMoving` in MCVideoWorker is a plan that shows it).
  If the self-heal's seek rejects (W:562) the
  stream has no session, and a retry is a seek, which needs one (W:1523). A `decode()`
  that throws while the self-heal primes is never healed (W:995-1013). A background read
  that rejects (W:783-787) loses the samples taken. A frame before the target replaces the
  one held (W:1098-1108), on the assumption of presentation order. `paintBlack` drops
  frames decoded ahead (W:1480).
* Panel. `open()` answering late overwrites the record of a newer target (VP:650). A
  backward step smaller than the coalescing distance is not sent, and a seek to the same
  target is skipped (VP:1153): the worker stays up to 33 ms ahead.
* Sources. An inline source may take an id that a batch has chosen (ST:1293); one removal
  then drops both sources and closes one. A calibration asked for after the close of its
  source was sent is cached for the next source of that id (ST:949). A caller that joins a
  fetch sent before the source's offset was changed gets the samples at the old offset
  (ST:1126). An inline source added during a clear leaves its
  samples stored. A reader whose summary fails is never closed, nor is a private copy
  that failed half way removed. `removeSource` resets neither zooms nor a pending layout.
  Two panels on one mp4 overwrite each other's active window; an open that fails leaves
  the spinner lit.
* Formats. Aborting or cancelling during "Opening…" still opens the source; by hand in
  re-derive mode the old recipe is not replaced, although the banner says so; at the
  iteration limit a passing candidate still fails, and only the last is tested; "The
  uploaded sample was deleted." is shown even if that failed; confirming by hand and a
  conversion can open one import twice, by different ways.
* Layouts. Without the agent bridge, Apply fails on a cast (`agentApi.ts:804-808`), and a
  successful one closes the dialog at once. An edit of the dock right after a rebuild is
  swallowed by `ignore`; a page opened with a link gives up the active layout; a link's
  bindings are merged panel by panel.
* Views. A scene bound anew while the cursor is before the first spin keeps the old
  cloud; a frame that failed is not tried again. The window of a value axis stays with
  the axis when channels move between axes.

## 8. What is not modelled, and the plan

Not modelled: the readers (bytes in, records out, sequential), the command line,
rendering and geometry (floating point), presentation of the shell, failing storage,
HTTP ranges, prompts and the remote model beyond "any answer", the panel's HUD and its
remount on a new channel. Components of which only this is missing are "partly" in
`PROJECT.json`, with what is missing.

Next, in order:

1. `PictureNotAhead` and `HealthyNeverStalls` of PlaybackGate, the latter from the inequality
   of section 4 as an assumption on its constants.
2. The panel's seeks composed with the playback gate, for which the gate needs streams
   that start anywhere.
