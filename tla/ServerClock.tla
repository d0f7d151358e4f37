---------------------------- MODULE ServerClock ----------------------------
(***************************************************************************)
(* ServerClock (infrastructure/bybit/clock.py) and the synchronize_clock    *)
(* call that feeds it (private_rest.py): the exchange's time is estimated   *)
(* as the local wall clock plus the offset measured at the midpoint of one  *)
(* request, and is handed out only while that measurement is young and was  *)
(* precise.                                                                 *)
(*                                                                          *)
(* clockTime is the exchange's clock and also the local monotonic one; the  *)
(* wall clock is off by wallSkew and may be stepped at any moment, between  *)
(* the two readings of one request too.  Milliseconds are integers; offsets *)
(* are kept doubled because a midpoint may fall on a half.                  *)
(***************************************************************************)
EXTENDS Integers

CONSTANTS
    MaxOffset,          \* max_absolute_offset_ms
    MaxUncertainty,     \* max_uncertainty_ms
    MaxSampleAge,       \* max_age_seconds
    RequestTimeout,     \* how long a request may be under way.  timeout_seconds of the REST
                        \* client bounds each socket operation; for the whole request,
                        \* read in one piece, it is an assumption
    Skews,              \* what the wall clock may be off by
    Epoch, MaxClockTime \* bound: the period looked at

ASSUME ClockConstants ==
    /\ MaxOffset \in Nat /\ MaxUncertainty \in Nat /\ MaxSampleAge \in Nat
    /\ RequestTimeout \in Nat /\ Epoch \in Nat /\ Skews \subseteq Int

VARIABLES clockTime, wallSkew, steppedAt, timeRequest, sample

clockVars == <<clockTime, wallSkew, steppedAt, timeRequest, sample>>

NoTimeRequest == [sent |-> 0, began |-> 0, server |-> 0]
NoSample == [offset2 |-> 0, rtt |-> 0, at |-> 0]
Wall == clockTime + wallSkew

ClockInit ==
    /\ clockTime = Epoch
    /\ wallSkew \in Skews
    /\ steppedAt = 0
    /\ timeRequest = NoTimeRequest
    /\ sample = NoSample

\* synchronize_clock up to its await: the wall clock is read.
SynchronizeClock ==
    /\ timeRequest = NoTimeRequest
    /\ timeRequest' = [sent |-> Wall, began |-> clockTime, server |-> 0]
    /\ UNCHANGED <<clockTime, wallSkew, steppedAt, sample>>

\* External: the exchange reads its clock for the answer.
ServerAnswers ==
    /\ timeRequest # NoTimeRequest /\ timeRequest.server = 0
    /\ timeRequest' = [timeRequest EXCEPT !.server = clockTime]
    /\ UNCHANGED <<clockTime, wallSkew, steppedAt, sample>>

SampleAtReceipt(r) ==
    [offset2 |-> 2 * r.server - 2 * Wall, rtt |-> Wall - r.sent, at |-> clockTime]
\* The sample of a request answered now, at the midpoint of the two readings.
SampleOf(r) ==
    [offset2 |-> 2 * r.server - (r.sent + Wall),
     rtt |-> Wall - r.sent,
     at |-> clockTime]

\* _validate_quality
GoodQuality(s) ==
    /\ -2 * MaxOffset <= s.offset2 /\ s.offset2 <= 2 * MaxOffset
    /\ s.rtt <= 2 * MaxUncertainty

\* The answer arrives; record_sample keeps the older sample when the new one is
\* refused, for a response before its request or for its quality.
RecordSample ==
    /\ timeRequest.server # 0
    /\ timeRequest' = NoTimeRequest
    /\ LET s == SampleOf(timeRequest)
       IN  sample' = IF s.rtt >= 0 /\ GoodQuality(s) THEN s ELSE sample
    /\ UNCHANGED <<clockTime, wallSkew, steppedAt>>

\* _send raises: nothing is recorded.
TimeRequestFails ==
    /\ timeRequest # NoTimeRequest
    /\ timeRequest' = NoTimeRequest
    /\ UNCHANGED <<clockTime, wallSkew, steppedAt, sample>>

\* External: time passes, within the time a request may be under way.
ClockTick ==
    /\ clockTime < MaxClockTime
    /\ timeRequest # NoTimeRequest => clockTime - timeRequest.began < RequestTimeout
    /\ clockTime' = clockTime + 1
    /\ UNCHANGED <<wallSkew, steppedAt, timeRequest, sample>>

\* External: the wall clock is set.
WallStep ==
    /\ \E k \in Skews \ {wallSkew} : wallSkew' = k
    /\ steppedAt' = clockTime
    /\ UNCHANGED <<clockTime, timeRequest, sample>>

ClockNext ==
    \/ SynchronizeClock \/ ServerAnswers \/ RecordSample \/ TimeRequestFails
    \/ ClockTick \/ WallStep

ClockSpec == ClockInit /\ [][ClockNext]_clockVars

\* timestamp_ms: when it answers, and what (truncated by int).
FreshSample == clockTime - sample.at <= MaxSampleAge
TimestampAvailable == sample # NoSample /\ FreshSample /\ GoodQuality(sample)
TimestampMs == (2 * Wall + sample.offset2) \div 2

---------------------------------------------------------------------------
\* Every timestamp used to sign a request lies within the accepted uncertainty
\* of the exchange's clock (plus one for the truncation), whatever the two legs
\* of the measuring request took and whatever the wall clock is off by; a step of
\* the wall clock spoils timestamps for the age limit and the time one request
\* may take, never longer, also when samples taken across the step or after it are refused
\* (record_sample, timestamp_ms, _validate_quality).
TimestampIsAccurate ==
    TimestampAvailable /\ clockTime - steppedAt > MaxSampleAge + RequestTimeout =>
        /\ 2 * TimestampMs - 2 * clockTime <= 2 * MaxUncertainty
        /\ 2 * clockTime - 2 * TimestampMs <= 2 * MaxUncertainty + 1
============================================================================
