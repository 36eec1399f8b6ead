----------------------------- MODULE PulseRate -----------------------------
(* The trigger scaler and the rate counter of one channel of               *)
(* axis_lago_trigger v1.3.  The scaler lets one crossing in scaler_a_i     *)
(* through as a trigger; the rate counter counts these between PPS pulses, *)
(* and the PPS copies it into the metadata, from where the program prints  *)
(* it as the rate of the channel.  The operator changes the scaler at any  *)
(* time ("lago -s sc1") and to any value: 0 lets a trigger through at      *)
(* every clock, more than the rate counter can count in a second.  The     *)
(* program holds the core in reset while it does not acquire.              *)
EXTENDS Integers

CONSTANTS W,         \* values of the 32-bit scaler counter
          R,         \* values of the 24-bit rate counter
          Scalers,   \* values the operator gives to the scaler
          MaxSec     \* triggers in a second, at most (bound of a model)

ASSUME RateAssumption ==
    /\ W \in Nat \ {0} /\ Scalers \subseteq 0 .. W - 1
    /\ MaxSec \in Nat \ {0} /\ R \in Nat \ {0}

VARIABLES
    aresetn,        \* bit 0 of the configuration register, low in reset
    scaler,         \* scaler_a_i
    scaler_a_cnt,   \* scaler_a_cnt_reg
    tr11_dly,       \* tr11_s_dly_reg
    rate_cnt,       \* rate_a_cnt_reg
    word,           \* the rate word of the metadata
    ticked,         \* history: the last clock had a trigger
    inSec,          \* history: triggers in this second
    lastSec,        \* history: and in the one the word is about
    clash, lastClash   \* history: that second began with a trigger in the
                       \*   very clock of the PPS

registers == <<scaler_a_cnt, tr11_dly, rate_cnt, word, ticked, inSec, lastSec, clash, lastClash>>
rate_vars == <<aresetn, scaler, registers>>

RateTypeOK ==
    /\ scaler \in Scalers
    /\ scaler_a_cnt \in 0 .. W - 1
    /\ {aresetn, tr11_dly, ticked, clash, lastClash} \subseteq BOOLEAN
    /\ rate_cnt \in 0 .. R - 1 /\ word \in 0 .. R - 1
    /\ inSec \in 0 .. MaxSec /\ lastSec \in 0 .. MaxSec

RateInit ==
    /\ aresetn = FALSE /\ scaler \in Scalers
    /\ scaler_a_cnt = 0 /\ tr11_dly = FALSE
    /\ rate_cnt = 0 /\ word = 0
    /\ ticked = FALSE /\ inSec = 0 /\ lastSec = 0
    /\ clash = FALSE /\ lastClash = FALSE

-----------------------------------------------------------------------------
max_tick == scaler_a_cnt = scaler

MutScalerNext(tr1) ==
    IF tr1 THEN IF scaler_a_cnt = W - 1 THEN scaler_a_cnt ELSE scaler_a_cnt + 1
    ELSE IF max_tick THEN 0 ELSE scaler_a_cnt

ScalerNext(tr1) ==
    IF tr1 THEN (scaler_a_cnt + 1) % W ELSE IF max_tick THEN 0 ELSE scaler_a_cnt

MutRateNext(pps) == IF max_tick THEN (rate_cnt + 1) % R ELSE rate_cnt

RateNext(pps) ==
    IF max_tick THEN (rate_cnt + 1) % R ELSE IF pps THEN 0 ELSE rate_cnt

Bit(b) == IF b THEN 1 ELSE 0

\* One rising edge.  Crossings never follow each other.
RateClock(tr1, pps) ==
    /\ aresetn
    /\ tr1 => ~tr11_dly
    /\ inSec < MaxSec \/ pps
    /\ scaler_a_cnt' = ScalerNext(tr1)
    /\ tr11_dly' = tr1
    /\ rate_cnt' = RateNext(pps)
    /\ word' = IF pps THEN rate_cnt ELSE word
    /\ ticked' = max_tick
    /\ inSec' = IF pps THEN Bit(max_tick) ELSE inSec + Bit(max_tick)
    /\ lastSec' = IF pps THEN inSec ELSE lastSec
    /\ clash' = IF pps THEN max_tick ELSE clash
    /\ lastClash' = IF pps THEN clash ELSE lastClash
    /\ UNCHANGED <<aresetn, scaler>>

SetScaler(s) ==
    /\ scaler' = s
    /\ UNCHANGED <<aresetn, registers>>

\* The registers start from 0 when the core comes out of reset.
Release ==
    /\ ~aresetn /\ aresetn' = TRUE
    /\ UNCHANGED <<scaler, registers>>

PutInReset ==
    /\ aresetn /\ aresetn' = FALSE
    /\ scaler_a_cnt' = 0 /\ tr11_dly' = FALSE
    /\ rate_cnt' = 0 /\ word' = 0
    /\ ticked' = FALSE /\ inSec' = 0 /\ lastSec' = 0
    /\ clash' = FALSE /\ lastClash' = FALSE
    /\ UNCHANGED scaler

RateStep ==
    \/ \E tr1, pps \in BOOLEAN : RateClock(tr1, pps)
    \/ \E s \in Scalers : SetScaler(s)
    \/ Release \/ PutInReset

RateSpec == RateInit /\ [][RateStep]_rate_vars

(* The clock runs, pulses keep coming and seconds pass.                    *)
FairRateSpec ==
    /\ RateSpec
    /\ SF_rate_vars(RateClock(TRUE, FALSE))
    /\ WF_rate_vars(RateClock(FALSE, FALSE))
    /\ SF_rate_vars(\E tr1 \in BOOLEAN : RateClock(tr1, TRUE))

-----------------------------------------------------------------------------
(* Properties                                                              *)

\* The rate reported is the number of triggers between the two PPS pulses, as
\* far as its 24 bits hold it, unless the first of them coincided with a
\* trigger.
RateUnlessClash == ~lastClash => word = lastSec % R

\* A channel whose pulses keep coming goes on triggering once the operator
\* leaves the scaler alone and the core out of reset, even if the new value is
\* below the count reached.
KeepsTriggering == (\E s \in Scalers : <>[](aresetn /\ scaler = s)) => []<>ticked
=============================================================================
