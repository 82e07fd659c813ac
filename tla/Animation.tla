------------------------------ MODULE Animation ------------------------------
(***************************************************************************)
(* Animation.h: an Animation of three tracks (discrete frames, frames to   *)
(* interpolate between, and frames that last) and the AniState that plays  *)
(* it on an object.  The time of a frame is the key of a sorted array.     *)
(* Times are whole numbers; an interpolated value is kept Scale times as   *)
(* large, so it is whole as well.  Frames change before the first          *)
(* Interpolate only: a state holds indices into them.                      *)
(***************************************************************************)
EXTENDS Integers, Sequences, FiniteSets

CONSTANTS Time, Value, Interval,       \* what a frame may hold
          MaxFrames, MaxElapsed, Delta \* bounds: frames of all tracks, time played, and its steps

Seqs == INSTANCE SequencesExt
Sets == INSTANCE FiniteSetsExt

VARIABLES ani,
          want,   \* history: frames fired in this pass, intervals alive, time played, and
                  \* whether the object shows it
          right   \* history: every call so far was due

Array == INSTANCE SortedArray WITH array <- <<>>, Key <- Time, Data <- Value, MaxSize <- MaxFrames

vars == <<ani, want, right>>

Scale == 6
None == -1
Init0 == 1        \* the value given to SetInit
Track == {"dis", "smo", "itv"}
Function == {"NoInterpolate", "NoInterpolateRel", "LerpInterpolate", "LerpInterpolateRel"}
Relative == {"NoInterpolateRel", "LerpInterpolateRel"}
-----------------------------------------------------------------------------
\* AniData and AniDataInterval, whose End is kept apart.
Inserted(frames, f) == Seqs!InsertAt(frames, Array!Loc(frames, f.key) + 1, f)
End(a, t) == IF t = "itv" THEN a.end ELSE IF a[t] = <<>> THEN 0 ELSE a[t][Len(a[t])].key
CheckIndex(end, f) == IF f.key + f.data > end THEN f.key + f.data ELSE end
RecalcLength(frames) == Seqs!FoldLeft(CheckIndex, 0, frames)

AddFrame(a, t, f) ==
  [a EXCEPT ![t] = Inserted(@, f), !.end = IF t = "itv" THEN CheckIndex(@, f) ELSE @]
RemoveFrame(a, t, i) ==
  LET frames == Seqs!RemoveAt(a[t], i) IN [a EXCEPT ![t] = frames, !.end = IF t = "itv" THEN RecalcLength(frames) ELSE @]

\* AnimationBase and Animation.
GetLength(a) == IF a.length < 0 THEN a.calc ELSE a.length
CalcLength(a) == Sets!Max({End(a, t) : t \in Track})
CheckLength(a, t) == [a EXCEPT !.calc = Sets!Max({@, End(a, t)})]
-----------------------------------------------------------------------------
\* Value times Scale at num / den of the way, as lerp computes it.
Lerp(a, b, num, den) == ((den - num) * a + num * b) * (Scale \div den)

\* The functions of AniDataSmooth; cur counts from 0, the resolved end is 1 / 1.
Interpolated(f, v, cur, num, den) ==
  LET whole == num = den
      step == v[cur + IF whole THEN 1 ELSE 0].val
  IN  CASE f = "NoInterpolate" -> IF cur = 0 /\ ~whole THEN Scale * Init0 ELSE Scale * step
        [] f = "NoInterpolateRel" -> Scale * (Init0 + step)
        [] f = "LerpInterpolate" -> Lerp(IF cur = 0 THEN Init0 ELSE v[cur].val, v[cur + 1].val, num, den)
        [] f = "LerpInterpolateRel" -> Scale * Init0 + Lerp(v[cur].val, v[cur + 1].val, num, den)

\* _cur goes over the frames that are due.
RECURSIVE Due(_, _, _)
Due(frames, cur, t) ==
  IF cur < Len(frames) /\ frames[cur + 1].key <= t THEN Due(frames, cur + 1, t) ELSE cur

\* The log is what was called in this step: frames, additions, removals and resets.
Event(what, is) == [k \in DOMAIN is |-> <<what, is[k]>>]
UpTo(from, to) == [k \in 1..to - from |-> from + k]

\* AniStateDiscrete::Interpolate.
Discrete(a, t) ==
  LET cur == Due(a.dis, a.cur.dis, t)
  IN  [a EXCEPT !.cur.dis = cur, !.log = @ \o Event("frame", UpTo(a.cur.dis, cur))]

\* AniStateSmooth::Interpolate.
Smooth(a, t) ==
  LET v == a.smo
      cur == Due(v, a.cur.smo, t)
      hold == IF cur = 0 THEN 0 ELSE v[cur].key
      over == cur >= Len(v)
  IN  [a EXCEPT !.cur.smo = cur,
                !.dest = IF over /\ Len(v) <= 1 THEN @
                         ELSE IF over THEN Interpolated(a.f, v, Len(v) - 1, 1, 1)
                         ELSE Interpolated(a.f, v, cur, t - hold, v[cur + 1].key - hold)]

\* The priority queue gives the greatest interval first.
RECURSIVE Popped(_, _)
Popped(a, t) ==
  LET top == CHOOSE i \in a.queue : \A j \in a.queue : a.itv[j].data <= a.itv[i].data
  IN  IF a.queue = {} \/ a.itv[top].data > t THEN a
      ELSE Popped([a EXCEPT !.queue = @ \ {top}, !.log = Append(@, <<"remove", top>>)], t)

\* AniStateInterval::Interpolate: what is due is added, and removed when its interval, not
\* its end, is not above the time.
Lasting(a, t) ==
  LET cur == Due(a.itv, a.cur.itv, t)
      due == UpTo(a.cur.itv, cur)
  IN  Popped([a EXCEPT !.cur.itv = cur, !.queue = @ \cup {due[i] : i \in DOMAIN due},
                       !.log = @ \o Event("add", due)], t)

\* AniState::_interpolate and _reset.
Played(a, t) == Lasting(Smooth(Discrete([a EXCEPT !.time = t], t), t), t)
ResetAll(a) ==
  [a EXCEPT !.cur = [t \in Track |-> 0], !.queue = {},
            !.log = @ \o Event("remove", Seqs!SetToSeq(a.queue)) \o <<<<"reset", 0>>>>]

Over(a) == a.time >= GetLength(a) /\ a.loop < 0
Advanced(a, delta) == LET p == Played(a, a.time + delta)
                               rest == (p.time - GetLength(a)) % (GetLength(a) - a.loop)
                           IN  IF p.time >= GetLength(a) /\ a.loop >= 0
                               THEN Played(ResetAll(p), rest + a.loop) ELSE p
-----------------------------------------------------------------------------
\* Each frame is fired once in a pass, in order; an interval is added when it is not there
\* and removed when it is.
Replay(h, e) ==
  CASE e[1] = "frame" -> [h EXCEPT !.done = @ + 1, !.ok = @ /\ e[2] = h.done + 1]
    [] e[1] = "add" -> [h EXCEPT !.live = @ \cup {e[2]}, !.ok = @ /\ e[2] \notin h.live]
    [] e[1] = "remove" -> [h EXCEPT !.live = @ \ {e[2]}, !.ok = @ /\ e[2] \in h.live]
    [] e[1] = "reset" -> [h EXCEPT !.done = 0, !.ok = @ /\ h.live = {}]

Called(a, elapsed, shown) ==
  LET h == Seqs!FoldLeft(Replay, [done |-> want.done, live |-> want.live, ok |-> TRUE], a.log)
  IN  /\ ani' = [a EXCEPT !.log = <<>>]
      /\ want' = [want EXCEPT !.done = h.done, !.live = h.live, !.elapsed = elapsed, !.shown = shown, !.playing = TRUE]
      /\ right' = (right /\ h.ok)

Building == ~want.playing /\ UNCHANGED <<want, right>>
Size == Len(ani.dis) + Len(ani.smo) + Len(ani.itv)
Frame(t) == [key : Time, val : IF t = "smo" THEN Value ELSE {0}, data : IF t = "itv" THEN Interval ELSE {0}]

Init ==
  /\ \E f \in Function, length \in {-1, 2} :
       ani = [dis |-> <<>>, smo |-> <<>>, itv |-> <<>>, f |-> f, end |-> 0, length |-> length, calc |-> 0,
              loop |-> -1, time |-> 0, cur |-> [t \in Track |-> 0], queue |-> {}, dest |-> None, log |-> <<>>]
  /\ want = [done |-> 0, live |-> {}, elapsed |-> 0, shown |-> FALSE, playing |-> FALSE, stale |-> FALSE]
  /\ right = TRUE

Add(t, f) == Building /\ Size < MaxFrames /\ ani' = CheckLength(AddFrame(ani, t, f), t)
Remove(t, i) == /\ Building /\ i \in DOMAIN ani[t]
                /\ ani' = LET a == RemoveFrame(ani, t, i) IN [a EXCEPT !.calc = CalcLength(a)]
\* Frames that are added to the data itself are counted by the next SetLength.
AddBehind(t, f) == /\ ~want.playing /\ Size < MaxFrames /\ ani' = AddFrame(ani, t, f)
                   /\ want' = [want EXCEPT !.stale = TRUE] /\ UNCHANGED right
SetLength == /\ ~want.playing /\ ani' = [ani EXCEPT !.calc = CalcLength(ani)]
             /\ want' = [want EXCEPT !.stale = FALSE] /\ UNCHANGED right
SetLoop(loop) == Building /\ ani' = [ani EXCEPT !.loop = loop]

\* A loop begins before the end, and the Rel functions are for frames from time 0 on.
Playable == /\ ~want.stale /\ (ani.loop >= 0 => ani.loop < GetLength(ani))
            /\ ani.f \in Relative => {ani.smo[i].key : i \in DOMAIN ani.smo \cap {1}} \subseteq {0}

Interpolate(delta) ==
  /\ Playable /\ want.elapsed + delta <= MaxElapsed
  /\ IF Over(ani) THEN UNCHANGED vars
     ELSE Called(Advanced(ani, delta), want.elapsed + delta, TRUE)

Rewound == [ResetAll(ani) EXCEPT !.time = 0]
Reset == Playable /\ Called(Rewound, 0, FALSE)
SetTime(t) == Playable /\ Called([IF ani.time > t THEN Rewound ELSE ani EXCEPT !.time = t], t, FALSE)

Next == \/ \E t \in Track : \/ \E f \in Frame(t) : Add(t, f) \/ AddBehind(t, f)
                            \/ \E i \in DOMAIN ani[t] : Remove(t, i)
        \/ SetLength \/ Reset
        \/ \E loop \in Time : SetLoop(loop)
        \/ \E delta \in Delta : Interpolate(delta)
        \/ \E t \in Time : SetTime(t)

Spec == Init /\ [][Next]_vars
-----------------------------------------------------------------------------
\* Where the time played leads.
Wrapped(e) == LET n == GetLength(ani)
              IN  IF e < n \/ ani.loop < 0 THEN e ELSE ani.loop + ((e - n) % (n - ani.loop))
Passed(t) == {i \in DOMAIN ani[t] : ani[t][i].key <= ani.time}

\* The frames around the time, on a line or a step between them.
Shown ==
  LET i == Cardinality(Passed("smo"))
      before == IF i = 0 THEN [key |-> 0, val |-> Init0] ELSE ani.smo[i]
      after == IF i = Len(ani.smo) THEN before ELSE ani.smo[i + 1]
      line == IF after = before THEN 0
              ELSE ((after.val - before.val) * (ani.time - before.key) * Scale) \div (after.key - before.key)
  IN  IF ani.f \in {"LerpInterpolate", "LerpInterpolateRel"} THEN Scale * before.val + line ELSE Scale * before.val

\* The object has what is due at the time played: its frames, its value, and no interval
\* when all that began are over; the length is that of the last frame to end.
Sound ==
  /\ want.live = ani.queue
  /\ want.stale \/ ani.calc = Sets!Max({0} \cup UNION {{ani[t][i].key + ani[t][i].data : i \in DOMAIN ani[t]} : t \in Track})
  /\ want.shown =>
       /\ ani.time = Wrapped(want.elapsed)
       /\ want.done = Cardinality(Passed("dis"))
       /\ (Len(ani.smo) > 1 \/ Len(ani.smo) > Cardinality(Passed("smo")))
            => ani.dest = Shown + IF ani.f \in Relative THEN Scale * Init0 ELSE 0
       /\ (\A i \in Passed("itv") : ani.itv[i].key + ani.itv[i].data <= ani.time) => ani.queue = {}
=============================================================================
