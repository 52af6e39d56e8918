---------------------------- MODULE SessionTimer ----------------------------
(***************************************************************************)
(* What two user agents agree on about refreshing their session (RFC 4028; *)
(* session_timer.rs): the interval, who refreshes, and when each acts.     *)
(* A header that is absent or malformed is NoHeader: parsing treats the    *)
(* two alike.                                                              *)
(***************************************************************************)
EXTENDS Integers

\* MIN_SESSION_EXPIRES_SECS and MAX_EXPIRY_HEADROOM_SECS.
Floor    == 90
Headroom == 32

Refresher == {"uac", "uas"}

\* A Session-Expires header; the refresher may be left to the answerer.
NoHeader == [interval |-> 0, refresher |-> "open"]

Header(intervals) ==
    [interval : intervals, refresher : Refresher \cup {"open"}]

\* One side's view of the timer.  NoTimer: none was negotiated.
NoTimer == [interval |-> 0, refreshes |-> FALSE]

Larger(a, b)  == IF a >= b THEN a ELSE b
Smaller(a, b) == IF a <= b THEN a ELSE b

AtLeastFloor(interval) == Larger(interval, Floor)

\* Seconds after the last refresh until the refresher refreshes again, and
\* until the other side gives the session up.
RefreshAfter(interval) == interval \div 2

ExpiryAfter(interval) == interval - Smaller(interval \div 3, Headroom)

\* The caller, from the Session-Expires of the 2xx.
NegotiateUac(header) ==
    IF header = NoHeader THEN NoTimer
    ELSE [interval  |-> AtLeastFloor(header.interval),
          refreshes |-> header.refresher # "uas"]

\* The callee, from the INVITE's Session-Expires, its Min-SE (0 if absent) and
\* whether the caller supports timers: what the 2xx says.
NegotiateUas(header, minSE, supports) ==
    IF header = NoHeader THEN NoHeader
    ELSE [interval  |-> Larger(header.interval, AtLeastFloor(minSE)),
          refresher |-> IF ~supports THEN "uas"
                        ELSE IF header.refresher = "open" THEN "uac"
                        ELSE header.refresher]

\* The callee's own view of what its 2xx says.
UasTimer(echo) ==
    IF echo = NoHeader THEN NoTimer
    ELSE [interval |-> echo.interval, refreshes |-> echo.refresher = "uas"]

=============================================================================
