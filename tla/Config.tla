------------------------------- MODULE Config -------------------------------
(***************************************************************************)
(* The numbers of the environment on their way to where they are used:     *)
(* config.Load, tracing.Init, database.NewPool, in the order of main.go.   *)
(* What is only a text (addresses, names) is left out; pgxpool and the     *)
(* tracing SDK are modelled from their use.                                *)
(***************************************************************************)
EXTENDS Integers

CONSTANTS
    MaxInt,      \* the largest int, 2^63 - 1
    MaxInt32,    \* the largest int32, 2^31 - 1
    MaxDefault, MinDefault,   \* 10 and 2 connections
    PoolTexts,   \* values of DB_MAX_CONNS and DB_MIN_CONNS
    Ratios,      \* values of OTEL_TRACES_SAMPLER_ARG, in hundredths
    Secrets      \* lengths of JWT_SECRET, in bytes

(* A variable of the environment: not set, no number, or a number as       *)
(* written; a ratio may be written NaN.                                    *)
Text == [form : {"unset", "junk", "number", "nan"}, n : Int]

ASSUME WidthAssumption == MaxInt32 \in Nat /\ MaxInt \in Nat /\ MaxInt >= MaxInt32
ASSUME TextAssumption == /\ PoolTexts \subseteq {t \in Text : t.form # "nan"}
                         /\ Ratios \subseteq Text
                         /\ Secrets \subseteq Nat
ASSUME DefaultAssumption == MinDefault \in Nat /\ MaxDefault \in 1 .. MaxInt32

VARIABLES
    env,      \* the environment the process is started in
    stage,    \* the next thing run() does, or how it ended
    cfg,      \* the pool bounds and the ratio config.Load returned
    sampler,  \* the ratio of the tracer provider, NoSampler without an endpoint
    pool      \* the bounds the pool was made with

vars == <<env, stage, cfg, sampler, pool>>

(* Two's complement.                                                       *)
Range(max) == -max - 1 .. max
Number(i) == [form |-> "number", n |-> i]
NoSampler == [form |-> "unset", n |-> 0]
NoPool == [max |-> 0, min |-> 0]

Init ==
    /\ env \in [max : PoolTexts, min : PoolTexts, ratio : Ratios,
                secret : Secrets, expiry : {"duration", "junk"},
                endpoint : {"set", "unset"}]
    /\ stage = "load"
    /\ cfg = [max |-> 0, min |-> 0, ratio |-> Number(0)]
    /\ sampler = NoSampler
    /\ pool = NoPool

-----------------------------------------------------------------------------
(* What strconv.Atoi refuses, an int out of range too, is the fallback.    *)
getEnvInt(t, fallback) ==
    IF t.form = "number" /\ t.n \in Range(MaxInt) THEN t.n ELSE fallback

(* Not the code: converted to an unsigned int.                             *)
int32Unsigned(n) == n % (2 * (MaxInt32 + 1))

(* The conversion keeps the low bits.                                      *)
int32(n) ==
    LET low == n % (2 * (MaxInt32 + 1))
    IN IF low <= MaxInt32 THEN low ELSE low - 2 * (MaxInt32 + 1)

(* Comparisons of floats: none with NaN is true.                           *)
Below(x, y) == x.form # "nan" /\ x.n < y
Above(x, y) == x.form # "nan" /\ x.n > y

ParseFloat(t) == IF t.form = "unset" THEN Number(100) ELSE t

(* Not the code: an "and" for the "or".                                    *)
BadRatioBoth(x) == Below(x, 0) /\ Above(x, 100)

BadRatio(x) == Below(x, 0) \/ Above(x, 100)

-----------------------------------------------------------------------------
Fail == stage' = "failed"

Load ==
    /\ stage = "load"
    /\ LET ratio == ParseFloat(env.ratio)
       IN IF \/ ratio.form = "junk" \/ BadRatio(ratio)
             \/ env.expiry = "junk" \/ env.secret < 16
          THEN Fail /\ UNCHANGED cfg
          ELSE /\ cfg' = [max |-> int32(getEnvInt(env.max, MaxDefault)),
                          min |-> int32(getEnvInt(env.min, MinDefault)),
                          ratio |-> ratio]
               /\ stage' = "tracing"
    /\ UNCHANGED <<env, sampler, pool>>

(* Without an endpoint nothing is set up.  The clamps come on top of       *)
(* Load's check; both comparisons are false of NaN, and what sampler the   *)
(* SDK makes of that depends on the machine.                               *)
TracingInit ==
    /\ stage = "tracing"
    /\ \/ Fail /\ env.endpoint = "set" /\ UNCHANGED sampler
       \/ /\ stage' = "database"
          /\ sampler' = CASE env.endpoint = "unset" -> NoSampler
                          [] Below(cfg.ratio, 0) -> Number(0)
                          [] Above(cfg.ratio, 100) -> Number(100)
                          [] OTHER -> cfg.ratio
    /\ UNCHANGED <<env, cfg, pool>>

(* Not the code: the two bounds swapped.                                   *)
NewPoolSwapped ==
    /\ stage = "database"
    /\ \/ Fail /\ UNCHANGED pool
       \/ /\ cfg.min >= 1
          /\ pool' = [max |-> cfg.min, min |-> cfg.max]
          /\ stage' = "migrations"
    /\ UNCHANGED <<env, cfg, sampler>>

(* pgxpool makes no pool of less than one connection; Ping may fail.       *)
NewPool ==
    /\ stage = "database"
    /\ \/ Fail /\ UNCHANGED pool
       \/ /\ cfg.max >= 1
          /\ pool' = [max |-> cfg.max, min |-> cfg.min]
          /\ stage' = "migrations"
    /\ UNCHANGED <<env, cfg, sampler>>

(* The pool's own goroutine opens the connections it is to have at least.  *)
(* A channel of a negative size panics, and the process dies of that, at   *)
(* whatever point run() has come to.                                       *)
OpenIdle ==
    /\ stage = "migrations"
    /\ stage' = IF pool.min >= 0 THEN "up" ELSE "failed"
    /\ UNCHANGED <<env, cfg, sampler, pool>>

(* Not a deadlock: run() has returned, or the process goes on.             *)
Ended == stage \in {"failed", "up"} /\ UNCHANGED vars

Next == Load \/ TracingInit \/ NewPool \/ OpenIdle \/ Ended

Spec == Init /\ [][Next]_vars

-----------------------------------------------------------------------------
ConfigTypeOK ==
    /\ stage \in {"load", "tracing", "database", "migrations", "up", "failed"}
    /\ cfg.max \in Range(MaxInt32) /\ cfg.min \in Range(MaxInt32)
    /\ pool.max \in Range(MaxInt32) /\ pool.min \in Range(MaxInt32)

(* What a variable of the environment asks for: what an int does not hold  *)
(* is no number.                                                           *)
Asked(t, fallback) ==
    IF t.form = "number" /\ t.n \in Range(MaxInt) THEN t.n ELSE fallback

(* A pool has the bounds it was set to have, if an int32 holds them; if    *)
(* not, but an int does, the process may come up all the same, with a      *)
(* smaller pool than was asked for, never with a larger one; and only then *)
(* can a bound below one become a pool, or a negative number of idle       *)
(* connections a process that stays up (config.go:53, 97-107,              *)
(* postgres.go:24-29).                                                     *)
PoolAsAsked ==
    LET max == Asked(env.max, MaxDefault)
        min == Asked(env.min, MinDefault)
    IN /\ stage \in {"migrations", "up"} =>
             /\ pool.max >= 1
             /\ max \in Range(MaxInt32) => pool.max = max
             /\ max > 0 => pool.max <= max
       /\ stage = "up" =>
             /\ pool.min >= 0
             /\ min \in Range(MaxInt32) => pool.min = min
             /\ min > 0 => pool.min <= min

(* A tracer samples the ratio its environment gives: one out of range      *)
(* stops the start and is not clamped in silence (config.go:64,            *)
(* tracing.go:61-67).                                                      *)
SampledAsAsked ==
    stage \in {"database", "migrations", "up"} /\ env.endpoint = "set" =>
        sampler = ParseFloat(env.ratio)

-----------------------------------------------------------------------------
(* "OTEL_TRACES_SAMPLER_ARG must be between 0 and 1" (config.go:65).       *)
RatioInRange ==
    stage \in {"tracing", "database", "migrations", "up"} =>
        cfg.ratio.form = "number" /\ cfg.ratio.n \in 0 .. 100
=============================================================================
