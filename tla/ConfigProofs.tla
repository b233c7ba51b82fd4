---------------------------- MODULE ConfigProofs ----------------------------
(***************************************************************************)
(* The numbers of the environment, for every width of int and int32 and    *)
(* every environment.                                                      *)
(***************************************************************************)
EXTENDS Config, TLAPS

(* The conversion to int32 stays in its range, changes nothing that is in  *)
(* it, and makes no positive number larger.                                *)
LEMMA Int32Keeps ==
    ASSUME NEW n \in Int
    PROVE  /\ int32(n) \in Range(MaxInt32)
           /\ n \in Range(MaxInt32) => int32(n) = n
           /\ n > 0 => int32(n) <= n
  <1> DEFINE modulus == 2 * (MaxInt32 + 1)
             low == n % modulus
  <1>1. /\ modulus \in Nat /\ modulus > 0 /\ MaxInt32 \in Nat
        /\ modulus = MaxInt32 + 1 + MaxInt32 + 1
    BY WidthAssumption
  <1>2. int32(n) = IF low <= MaxInt32 THEN low ELSE low - modulus
    BY DEF int32
  <1> HIDE DEF modulus
  <1>3. low \in 0 .. modulus - 1
    BY <1>1
  <1>4. n \in 0 .. modulus - 1 => low = n
    BY <1>1
  <1>5. n < 0 /\ n >= -modulus => low = n + modulus
    BY <1>1
  <1>6. n > 0 => low <= n
    BY <1>1
  <1> HIDE DEF low
  <1> QED BY <1>1, <1>2, <1>3, <1>4, <1>5, <1>6 DEF Range

(* A setting that is left out or no number is its default.                 *)
LEMMA GetEnvIntType ==
    ASSUME NEW t \in PoolTexts, NEW fallback \in Int
    PROVE  getEnvInt(t, fallback) \in Int
  BY TextAssumption DEF getEnvInt, Text

(* What each stage has settled: from Load on the bounds and the ratio are  *)
(* those of the environment, the ratio one that Load let through; then the *)
(* sampler is that ratio; and a pool has the bounds Load returned.         *)
Environment == [max : PoolTexts, min : PoolTexts, ratio : Ratios,
                secret : Secrets, expiry : {"duration", "junk"},
                endpoint : {"set", "unset"}]

Loaded == /\ cfg = [max |-> int32(getEnvInt(env.max, MaxDefault)),
                    min |-> int32(getEnvInt(env.min, MinDefault)),
                    ratio |-> ParseFloat(env.ratio)]
          /\ ~BadRatio(cfg.ratio)

Traced == env.endpoint = "set" => sampler = cfg.ratio

Pooled == pool = [max |-> cfg.max, min |-> cfg.min] /\ pool.max >= 1

ConfigInv ==
    /\ env \in Environment
    /\ stage \in {"load", "tracing", "database", "migrations", "up", "failed"}
    /\ stage \in {"tracing", "database", "migrations", "up"} => Loaded
    /\ stage \in {"database", "migrations", "up"} => Traced
    /\ stage \in {"migrations", "up"} => Pooled
    /\ stage = "up" => pool.min >= 0
    /\ cfg.max \in Range(MaxInt32) /\ cfg.min \in Range(MaxInt32)
    /\ pool.max \in Range(MaxInt32) /\ pool.min \in Range(MaxInt32)

(* Nothing is settled at first.                                            *)
LEMMA ConfigInit == Init => ConfigInv
  <1> SUFFICES ASSUME Init PROVE ConfigInv
    OBVIOUS
  <1>1. /\ env \in Environment /\ stage = "load"
        /\ cfg.max = 0 /\ cfg.min = 0 /\ pool.max = 0 /\ pool.min = 0
    BY DEF Init, Environment, NoPool
  <1>2. 0 \in Range(MaxInt32)
    BY WidthAssumption DEF Range
  <1> QED BY <1>1, <1>2 DEF ConfigInv

(* Load settles the bounds and the ratio, or the start fails.              *)
LEMMA LoadKeeps == ASSUME ConfigInv, Load PROVE ConfigInv'
  <1> DEFINE ratio == ParseFloat(env.ratio)
  <1>1. /\ stage = "load" /\ env \in Environment
        /\ env' = env /\ sampler' = sampler /\ pool' = pool
    BY DEF Load, ConfigInv
  <1>2. CASE stage' = "failed" /\ cfg' = cfg
    BY <1>1, <1>2 DEF ConfigInv
  <1>3. CASE /\ ~BadRatio(ratio) /\ stage' = "tracing"
             /\ cfg' = [max |-> int32(getEnvInt(env.max, MaxDefault)),
                        min |-> int32(getEnvInt(env.min, MinDefault)),
                        ratio |-> ratio]
    <2>1. Loaded'
      BY <1>1, <1>3 DEF Loaded
    <2>2. env.max \in PoolTexts /\ env.min \in PoolTexts
      BY <1>1 DEF Environment
    <2>3. MaxDefault \in Int /\ MinDefault \in Int
      BY DefaultAssumption, WidthAssumption
    <2>4. cfg'.max \in Range(MaxInt32) /\ cfg'.min \in Range(MaxInt32)
      BY <1>3, <2>2, <2>3, GetEnvIntType, Int32Keeps
    <2> QED BY <1>1, <1>3, <2>1, <2>4 DEF ConfigInv
  <1> QED BY <1>2, <1>3 DEF Load, Fail

(* The clamps of tracing.Init find nothing to do.                          *)
LEMMA TracingInitKeeps == ASSUME ConfigInv, TracingInit PROVE ConfigInv'
  <1>1. /\ stage = "tracing" /\ stage' \in {"failed", "database"}
        /\ env' = env /\ cfg' = cfg /\ pool' = pool /\ Loaded
    BY DEF TracingInit, Fail, ConfigInv
  <1>2. stage' = "database" => Traced'
    <2>1. ~Below(cfg.ratio, 0) /\ ~Above(cfg.ratio, 100)
      BY <1>1 DEF Loaded, BadRatio
    <2>2. stage' = "database" /\ env.endpoint = "set" => sampler' = cfg.ratio
      BY <2>1 DEF TracingInit, Fail
    <2> QED BY <1>1, <2>2 DEF Traced
  <1>3. Loaded'
    BY <1>1 DEF Loaded
  <1> QED BY <1>1, <1>2, <1>3 DEF ConfigInv

(* NewPool fails for fewer than one connection and takes over the bounds.  *)
LEMMA NewPoolKeeps == ASSUME ConfigInv, NewPool PROVE ConfigInv'
  <1>1. /\ stage = "database" /\ env' = env /\ cfg' = cfg /\ sampler' = sampler
        /\ Loaded /\ Traced
    BY DEF NewPool, ConfigInv
  <1>2. Loaded' /\ Traced'
    BY <1>1 DEF Loaded, Traced
  <1>3. CASE stage' = "failed" /\ pool' = pool
    BY <1>1, <1>2, <1>3 DEF ConfigInv
  <1>4. CASE /\ stage' = "migrations" /\ cfg.max >= 1
             /\ pool' = [max |-> cfg.max, min |-> cfg.min]
    <2>1. Pooled'
      BY <1>1, <1>4 DEF Pooled
    <2> QED BY <1>1, <1>2, <1>4, <2>1 DEF ConfigInv
  <1> QED BY <1>3, <1>4 DEF NewPool, Fail

(* The process stays up only with a pool whose idle connections it opened. *)
LEMMA OpenIdleKeeps == ASSUME ConfigInv, OpenIdle PROVE ConfigInv'
  <1>1. /\ stage = "migrations" /\ env' = env /\ cfg' = cfg
        /\ sampler' = sampler /\ pool' = pool
        /\ Loaded /\ Traced /\ Pooled
    BY DEF OpenIdle, ConfigInv
  <1>2. Loaded' /\ Traced' /\ Pooled'
    BY <1>1 DEF Loaded, Traced, Pooled
  <1>3. stage' \in {"up", "failed"} /\ (stage' = "up" => pool.min >= 0)
    BY DEF OpenIdle
  <1> QED BY <1>1, <1>2, <1>3 DEF ConfigInv

LEMMA ConfigAlways == Spec => []ConfigInv
  <1>1. ConfigInv /\ [Next]_vars => ConfigInv'
    <2> SUFFICES ASSUME ConfigInv, [Next]_vars PROVE ConfigInv'
      OBVIOUS
    <2>1. CASE UNCHANGED vars
      BY <2>1 DEF vars, ConfigInv, Loaded, Traced, Pooled
    <2> QED BY <2>1, LoadKeeps, TracingInitKeeps, NewPoolKeeps, OpenIdleKeeps
         DEF Next, Ended
  <1> QED BY <1>1, ConfigInit, PTL DEF Spec

-----------------------------------------------------------------------------
(* The bounds of the configuration and of the pool are always int32s.      *)
THEOREM ConfigTypeCorrect == Spec => []ConfigTypeOK
  <1>1. ConfigInv => ConfigTypeOK
    BY DEF ConfigInv, ConfigTypeOK
  <1> QED BY <1>1, ConfigAlways, PTL

(* A pool has the bounds it was set to have, or smaller ones if an int32   *)
(* does not hold them; and it never is of no connections, nor does the     *)
(* process stay up with a negative lower bound.                            *)
THEOREM PoolIsAsAsked == Spec => []PoolAsAsked
  <1>1. ConfigInv => PoolAsAsked
    <2> SUFFICES ASSUME ConfigInv, stage \in {"migrations", "up"} PROVE PoolAsAsked
      BY DEF PoolAsAsked
    <2> DEFINE max == getEnvInt(env.max, MaxDefault)
               min == getEnvInt(env.min, MinDefault)
    <2>1. /\ pool.max = int32(max) /\ pool.max >= 1 /\ pool.min = int32(min)
          /\ stage = "up" => pool.min >= 0
      BY DEF ConfigInv, Loaded, Pooled
    <2>2. max \in Int /\ min \in Int
      <3>1. /\ env.max \in PoolTexts /\ env.min \in PoolTexts
            /\ MaxDefault \in Int /\ MinDefault \in Int
        BY DefaultAssumption, WidthAssumption DEF ConfigInv, Environment
      <3> QED BY <3>1, GetEnvIntType
    <2>3. /\ max \in Range(MaxInt32) => pool.max = max
          /\ max > 0 => pool.max <= max
          /\ min \in Range(MaxInt32) => pool.min = min
          /\ min > 0 => pool.min <= min
      BY <2>1, <2>2, Int32Keeps
    <2> QED BY <2>1, <2>3 DEF PoolAsAsked, Asked, getEnvInt
  <1> QED BY <1>1, ConfigAlways, PTL

(* The sampler has the ratio of the environment, or the process is not up. *)
THEOREM SamplesAsAsked == Spec => []SampledAsAsked
  <1>1. ConfigInv => SampledAsAsked
    BY DEF ConfigInv, Loaded, Traced, SampledAsAsked
  <1> QED BY <1>1, ConfigAlways, PTL
=============================================================================
