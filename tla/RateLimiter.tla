---------------------------- MODULE RateLimiter -----------------------------
(***************************************************************************)
(* app/core/rate_limiter.py: a counter rate_limit:{caller} that the first  *)
(* call opens for Window ticks, read and written by one Lua script.        *)
(*                                                                         *)
(* span and passed are an observer of the watched callers: from an allowed *)
(* call it picks, it counts the allowed calls of the next Window ticks.    *)
(***************************************************************************)
EXTENDS Redis

CONSTANTS Callers,      \* connection ids (or the addresses of API callers)
          Watched,      \* the callers under observation
          Limit, Window

ASSUME LimiterAssumption ==
    Limit \in Nat \ {0} /\ Window \in Nat \ {0} /\ Watched \subseteq Callers

VARIABLES count,        \* [Callers -> 0 .. Limit + 1]: more calls count as one more
          window,       \* [Callers -> ticks the counter has left]
          span, passed

limiterVars == <<count, window, span, passed>>

LimiterTypeOK ==
    /\ count \in [Callers -> 0 .. Limit + 1]
    /\ window \in [Callers -> 0 .. Window]
    /\ span \in [Callers -> 0 .. Window]
    /\ passed \in [Callers -> Nat]

LimiterInit ==
    /\ count = [c \in Callers |-> 0]
    /\ window = [c \in Callers |-> 0]
    /\ span = [c \in Callers |-> 0]
    /\ passed = [c \in Callers |-> 0]

Allowed_OffByOne(c) == count[c] <= Limit

\* The verdict of the next call: count after INCR is not above the limit.
Allowed(c) == count[c] < Limit

Watch(c) ==
    \/ /\ Allowed(c) /\ span[c] > 0
       /\ passed' = [passed EXCEPT ![c] = @ + 1]
       /\ UNCHANGED span
    \/ /\ Allowed(c) /\ span[c] = 0 /\ c \in Watched
       /\ passed' = [passed EXCEPT ![c] = 1]
       /\ span' = [span EXCEPT ![c] = Window]
    \/ /\ Allowed(c) => span[c] = 0
       /\ UNCHANGED <<span, passed>>

allow_Renewing(c) ==
    /\ count' = [count EXCEPT ![c] = IF @ <= Limit THEN @ + 1 ELSE @]
    /\ window' = SetEx(window, c, Window)
    /\ Watch(c)

\* INCR, and EXPIRE only for the call that created the counter.
allow(c) ==
    /\ count' = [count EXCEPT ![c] = IF @ <= Limit THEN @ + 1 ELSE @]
    /\ window' = IF count[c] = 0 THEN SetEx(window, c, Window) ELSE window
    /\ Watch(c)

LimiterTick ==
    /\ window' = Decay(window)
    /\ count' = [c \in Callers |-> IF window'[c] = 0 THEN 0 ELSE count[c]]
    /\ span' = Decay(span)
    /\ passed' = [c \in Callers |-> IF span'[c] = 0 THEN 0 ELSE passed[c]]

-----------------------------------------------------------------------------
\* What the present window has let through.
Counted(c) == IF count[c] < Limit THEN count[c] ELSE Limit

\* A stretch under observation lies in the present window, and has counted less
\* than the window has unless both began with the same call; or it has crossed
\* the end of a window that began before it, and the present window outlasts it.
LimiterInv ==
    \A c \in Callers :
        /\ count[c] = 0 <=> window[c] = 0
        /\ span[c] = 0 => passed[c] = 0
        /\ span[c] > 0 =>
             \/ /\ passed[c] <= Counted(c) /\ count[c] > 0
                /\ passed[c] < Counted(c) \/ window[c] >= span[c]
             \/ /\ passed[c] < Limit + Counted(c)
                /\ window[c] = 0 \/ window[c] >= span[c]

\* The limiter is a fixed window, not a bucket: around the end of a window more
\* than Limit calls get through, but in no stretch of Window ticks twice as many.
FewerThanTwiceTheLimit == \A c \in Callers : passed[c] < 2 * Limit

\* A limited caller gets through again however often it calls meanwhile: denied
\* calls do not prolong the window.
LimitedCallersGetThrough == \A c \in Callers : ~Allowed(c) ~> Allowed(c)
=============================================================================
