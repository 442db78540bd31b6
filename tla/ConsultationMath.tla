-------------------------- MODULE ConsultationMath --------------------------
(***************************************************************************)
(* The pricing helpers of shared/lib/consultationBilling.js, in integer    *)
(* cents.  Every path that quotes, holds, charges or splits a consultation *)
(* goes through these functions, so they are stated once here and used by  *)
(* the state machines and by the theorems.                                 *)
(*                                                                         *)
(* JavaScript's Math.round(n / d) on non-negative operands is the floor of *)
(* (2n + d) / 2d, and Math.ceil(n / d) is the floor of (n + d - 1) / d.    *)
(***************************************************************************)
EXTENDS Integers

CONSULTATION_RATE_MINUTES == 30

MINIMUM_CONSULTATION_CHARGE_CENTS == 50

MINIMUM_HOLD_CENTS == 3000

\* Math.round(n / d) for n >= 0 and d > 0
RoundDiv(n, d) == (2 * n + d) \div (2 * d)

\* Call length in seconds to whole minutes, partial minutes rounding up
consultationBillableMinutes(durationSeconds) ==
    IF durationSeconds <= 0 THEN 0 ELSE (durationSeconds + 59) \div 60

\* Customer charge: whole minutes at the listed 30-minute rate, never below
\* Stripe's minimum once there is anything to bill.
computeConsultationChargeCents(rateCents, durationSeconds) ==
    IF durationSeconds <= 0 \/ rateCents <= 0
    THEN 0
    ELSE LET raw == RoundDiv(consultationBillableMinutes(durationSeconds) * rateCents,
                             CONSULTATION_RATE_MINUTES)
         IN  IF raw < MINIMUM_CONSULTATION_CHARGE_CENTS
             THEN MINIMUM_CONSULTATION_CHARGE_CENTS
             ELSE raw

\* Platform commission on a charge, the rate given in whole percent
computeConsultationCommissionCents(chargeCents, percent) ==
    RoundDiv(chargeCents * percent, 100)

\* Pre-authorisation: one 30-minute block or $30, whichever is larger
consultationHoldMinimumCents(rateCents) ==
    IF rateCents < MINIMUM_HOLD_CENTS THEN MINIMUM_HOLD_CENTS ELSE rateCents

\* endConsultation and room_close store the duration rounded up to minutes
storedDurationSeconds(rawSeconds) == ((rawSeconds + 59) \div 60) * 60
=============================================================================
