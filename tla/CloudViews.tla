------------------------------ MODULE CloudViews ------------------------------
(***************************************************************************)
(* The two viewers of LiDAR spins: the 3D scene panel (ScenePanel.tsx) and *)
(* the overlay projected over a video (lidarOverlay.ts, VideoPanel.tsx),   *)
(* which share decoded spins (pointCloudSpinCache.ts) and each drop what   *)
(* comes too late by a request number of their own.                        *)
(*                                                                         *)
(* A spin stands for its decoded points; the cache keeps it by channel and *)
(* time.  A session that was cleared may be followed by another whose      *)
(* channels have the same names and other spins.  The other kinds of scene *)
(* take the same steps as a cloud, without the cache.                      *)
(***************************************************************************)
EXTENDS Integers, Sequences, FiniteSets, FiniteSetsExt, SequencesExt

CONSTANTS
  Clouds,      \* point-cloud channels
  Times,       \* the times of each one's spins, ascending
  MaxEntries,  \* MAX_ENTRIES
  MaxActs      \* bindings, moves of the cursor, clears

CloudAssumption ==
  /\ \A c \in Clouds : Times[c] \in Seq(Nat \ {0})
  /\ MaxEntries \in Nat \ {0} /\ MaxActs \in Nat

NoCloud == "none"
NoSpin  == [ch |-> NoCloud, t |-> 0, session |-> 0]

VARIABLES
  cursor,    \* cursorNs, and the time of the frame the video shows
  session,   \* sessions so far
  spins,     \* cache: decoded spins, least recently used first
  reads,     \* fetches and decodes under way
  inflight,  \* those a later caller joins
  waits,     \* what each caller of fetchDecodedSpin waits for
  scene,     \* the scene panel, see NewScene
  overlay,   \* the overlay, see NewOverlay
  acts

vars == <<cursor, session, spins, reads, inflight, waits, scene, overlay, acts>>

NewScene ==
  [ch |-> NoCloud,   \* the channel bound
   gl |-> 0,         \* renderers made so far
   times |-> FALSE,  \* the frame times are there
   lost |-> FALSE,   \* they could not be had
   last |-> 0,       \* lastFrameRef, 0 before the first
   req |-> 0,        \* reqIdRef
   failed |-> FALSE, \* the status is an error
   shows |-> NoSpin] \* what is uploaded to the renderer

NewOverlay ==
  [ch |-> NoCloud,
   ready |-> FALSE,  \* calibration and spin times are there
   last |-> 0,       \* spinIdxRef
   busy |-> FALSE,
   req |-> 0,
   late |-> FALSE,   \* the last spin was asked for under another binding
   shows |-> NoSpin] \* what is projected

Init ==
  /\ cursor = 1 /\ session = 1
  /\ spins = <<>> /\ reads = {} /\ inflight = {} /\ waits = {}
  /\ scene = NewScene /\ overlay = NewOverlay
  /\ acts = 0

Act == acts < MaxActs /\ acts' = acts + 1

(* lastIndexAtOrBefore, activeSpinIndex.                                   *)
SpinAt(c, t) == Cardinality({i \in DOMAIN Times[c] : Times[c][i] <= t})

-----------------------------------------------------------------------------
(* pointCloudSpinCache.ts.                                                 *)

Same(a, b) == a.ch = b.ch /\ a.t = b.t

Hit(c, t)  == {s \in ToSet(spins) : Same(s, [ch |-> c, t |-> t])}

(* A hit becomes the latest; a spin put where one is takes its place.      *)
Touched(list, s) == Append(SelectSeq(list, LAMBDA x : ~ Same(x, s)), s)

Stored(list, s) ==
  LET all == IF \E x \in ToSet(list) : Same(x, s)
             THEN [i \in DOMAIN list |-> IF Same(list[i], s) THEN s ELSE list[i]]
             ELSE Append(list, s)
  IN IF Len(all) > MaxEntries THEN Tail(all) ELSE all

(* A caller that has to wait, for a read under way or a new one.           *)
Waits(who, req, gl, c, at) ==
  LET read == [ch |-> c, t |-> Times[c][at], session |-> session]
      join == {r \in inflight : Same(r, read)}
      for  == IF join = {} THEN read ELSE CHOOSE r \in join : TRUE
  IN /\ waits' = waits \cup {[who |-> who, req |-> req, gl |-> gl, read |-> for,
                              ch |-> c, at |-> at]}
     /\ reads' = reads \cup {for} /\ inflight' = inflight \cup {for}
     /\ UNCHANGED spins

NoFetch == UNCHANGED <<spins, reads, inflight, waits>>

-----------------------------------------------------------------------------
(* The scene panel.                                                        *)

(* updateFrame for a scene `s` and a cursor `t`.                           *)
UpdateFrame(s, t) ==
  LET at  == SpinAt(s.ch, t)
      ask == [s EXCEPT !.last = at, !.req = @ + 1]
  IN CASE s.ch = NoCloud \/ ~ s.times \/ at = s.last -> scene' = s /\ NoFetch
       [] s.ch # NoCloud /\ s.times /\ at # s.last /\ at = 0 ->
            /\ scene' = [s EXCEPT !.last = 0, !.shows = NoSpin, !.failed = FALSE]
            /\ NoFetch
       [] OTHER ->
            LET hit == Hit(s.ch, Times[s.ch][at]) IN
              IF hit = {}
              THEN scene' = ask /\ Waits("scene", ask.req, s.gl, s.ch, at)
              ELSE LET spin == CHOOSE x \in hit : TRUE IN
                     /\ scene' = [ask EXCEPT !.shows = spin, !.failed = FALSE]
                     /\ spins' = Touched(spins, spin)
                     /\ UNCHANGED <<reads, inflight, waits>>

(* Another binding starts over, but neither the request number nor what    *)
(* is on show; the renderer goes only when nothing is bound.               *)
BindScene(c) ==
  /\ c # scene.ch
  /\ Act
  /\ scene' = [scene EXCEPT !.ch = c, !.times = FALSE, !.lost = FALSE, !.last = 0,
                 !.failed = FALSE,
                 !.gl = IF scene.ch = NoCloud THEN @ + 1 ELSE @,
                 !.shows = IF c = NoCloud THEN NoSpin ELSE @]
  /\ NoFetch /\ UNCHANGED <<cursor, session, overlay>>

SceneTimesLoaded ==
  /\ scene.ch # NoCloud /\ ~ scene.times /\ ~ scene.lost
  /\ UpdateFrame([scene EXCEPT !.times = TRUE], cursor)
  /\ UNCHANGED <<cursor, session, overlay, acts>>

SceneTimesFail ==
  /\ scene.ch # NoCloud /\ ~ scene.times /\ ~ scene.lost
  /\ scene' = [scene EXCEPT !.lost = TRUE, !.failed = TRUE]
  /\ NoFetch /\ UNCHANGED <<cursor, session, overlay, acts>>

MoveCursor(t) ==
  /\ t # cursor
  /\ Act
  /\ cursor' = t
  /\ UpdateFrame(scene, t)
  /\ UNCHANGED <<session, overlay>>

\* Mutant: whatever comes is shown.
SceneTakesAny(w) == w.who = "scene" /\ w.gl = scene.gl

SceneTakes(w) ==
  w.who = "scene" /\ w.req = scene.req /\ w.gl = scene.gl /\ scene.ch # NoCloud

-----------------------------------------------------------------------------
(* The overlay.                                                            *)

(* setBinding, resetProjection.                                            *)
BindOverlay(c) ==
  /\ c # overlay.ch
  /\ Act
  /\ overlay' = [overlay EXCEPT !.ch = c, !.ready = FALSE, !.last = 0, !.late = FALSE,
                                !.shows = NoSpin]
  /\ NoFetch /\ UNCHANGED <<cursor, session, scene>>

OverlayLoaded ==
  /\ overlay.ch # NoCloud /\ ~ overlay.ready
  /\ overlay' = [overlay EXCEPT !.ready = TRUE]
  /\ NoFetch /\ UNCHANGED <<cursor, session, scene, acts>>

\* Mutant: a refresh that ends does not end the wait for it.
FreedNever(o) == o

Freed(o) == [o EXCEPT !.busy = FALSE]

Projected(o, spin, at) ==
  Freed([o EXCEPT !.shows = spin, !.last = at, !.late = spin # NoSpin /\ spin.ch # o.ch])

(* draw, refreshOverlaySpin: one refresh at a time, asked again each tick. *)
Draw ==
  LET at == SpinAt(overlay.ch, cursor)
      t  == Times[overlay.ch][at]
  IN /\ overlay.ch # NoCloud /\ overlay.ready
     /\ at # overlay.last /\ at > 0 /\ ~ overlay.busy
     /\ IF Hit(overlay.ch, t) = {}
        THEN /\ overlay' = [overlay EXCEPT !.busy = TRUE, !.req = @ + 1]
             /\ Waits("overlay", overlay.req + 1, 0, overlay.ch, at)
        ELSE LET spin == CHOOSE x \in Hit(overlay.ch, t) : TRUE IN
               /\ overlay' = Projected([overlay EXCEPT !.req = @ + 1], spin, at)
               /\ spins' = Touched(spins, spin)
               /\ UNCHANGED <<reads, inflight, waits>>
     /\ UNCHANGED <<cursor, session, scene, acts>>

OverlayTakes(w) == w.who = "overlay" /\ w.req = overlay.req

-----------------------------------------------------------------------------
(* A read ends for all who wait for it.  Its entry in the table of reads   *)
(* goes, and so does a newer one's with the same key.                      *)
Ended(r) ==
  /\ reads' = reads \ {r}
  /\ inflight' = {x \in inflight : ~ Same(x, r)}
  /\ waits' = {w \in waits : w.read # r}

For(r) == {w \in waits : w.read = r}

SpinRead ==
  \E r \in reads :
    /\ Ended(r)
    /\ spins' = Stored(spins, r)
    /\ scene' = IF \E w \in For(r) : SceneTakes(w)
                THEN [scene EXCEPT !.shows = r, !.failed = FALSE] ELSE scene
    /\ overlay' = IF \E w \in For(r) : OverlayTakes(w)
                  THEN Projected(overlay, r, (CHOOSE w \in For(r) : OverlayTakes(w)).at)
                  ELSE overlay
    /\ UNCHANGED <<cursor, session, acts>>

(* The fetch fails or cannot be decoded.  The overlay shows nothing for    *)
(* the spin, the scene an error.                                           *)
SpinFails ==
  \E r \in reads :
    /\ Ended(r)
    /\ scene' = IF \E w \in For(r) : SceneTakes(w) THEN [scene EXCEPT !.failed = TRUE] ELSE scene
    /\ overlay' = IF \E w \in For(r) : OverlayTakes(w)
                  THEN Projected(overlay, NoSpin, (CHOOSE w \in For(r) : OverlayTakes(w)).at)
                  ELSE overlay
    /\ UNCHANGED <<cursor, session, spins, acts>>

(* clear: bindings, cache and table go; reads under way do not.            *)
ClearSession ==
  /\ Act
  /\ session' = session + 1
  /\ spins' = <<>> /\ inflight' = {}
  /\ scene' = [scene EXCEPT !.ch = NoCloud, !.times = FALSE, !.lost = FALSE,
                            !.shows = NoSpin, !.failed = FALSE]
  /\ overlay' = [overlay EXCEPT !.ch = NoCloud, !.ready = FALSE, !.last = 0,
                                !.late = FALSE, !.shows = NoSpin]
  /\ UNCHANGED <<cursor, reads, waits>>

Next ==
  \/ \E c \in Clouds \cup {NoCloud} : BindScene(c) \/ BindOverlay(c)
  \/ SceneTimesLoaded \/ SceneTimesFail
  \/ \E t \in 1..3 : MoveCursor(t)
  \/ OverlayLoaded \/ Draw
  \/ SpinRead \/ SpinFails
  \/ ClearSession

Spec == Init /\ [][Next]_vars

-----------------------------------------------------------------------------
Asked(who, req) == \E w \in waits : w.who = who /\ w.req = req

(* With nothing on its way, a scene panel whose cursor is past the first   *)
(* spin shows the bound channel's spin under the cursor or an error        *)
(* (ScenePanel.tsx:154-231, 405-464).                                      *)
SceneShowsSpin ==
  (scene.ch # NoCloud /\ scene.times /\ ~ scene.failed /\ ~ Asked("scene", scene.req)
     /\ scene.last > 0) =>
    /\ scene.last = SpinAt(scene.ch, cursor)
    /\ Same(scene.shows, [ch |-> scene.ch, t |-> Times[scene.ch][scene.last]])

(* The overlay is never left waiting: while it is busy its refresh is on   *)
(* its way; and what it projects is the bound channel's spin it takes for  *)
(* current, or nothing, unless the refresh was asked for under another     *)
(* binding (lidarOverlay.ts:120-166, 196-200).                             *)
OverlayShowsSpin ==
  /\ overlay.busy => Asked("overlay", overlay.req)
  /\ (overlay.shows # NoSpin /\ ~ overlay.late) =>
       Same(overlay.shows, [ch |-> overlay.ch, t |-> Times[overlay.ch][overlay.last]])

(* "A late spin fetch result for a stale binding is dropped"               *)
(* (lidarOverlay.ts:100, 118-119): the token it is dropped by does not     *)
(* move with the binding.                                                  *)
StaleSpinDropped == overlay.shows # NoSpin => overlay.shows.ch = overlay.ch

(* "A fresh load never serves geometry from a previous session's channels" *)
(* (pointCloudSpinCache.ts:87-88).                                         *)
OfThisSession == \A s \in ToSet(spins) : s.session = session
===============================================================================
