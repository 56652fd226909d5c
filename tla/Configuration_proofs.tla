------------------------- MODULE Configuration_proofs -------------------------
(***************************************************************************)
(* What the defaults and overrides of rate limits amount to, for all       *)
(* numbers: filling up is done after once, and a policy that is resolved   *)
(* again for a request is the policy that was loaded.                      *)
(***************************************************************************)
EXTENDS Configuration, TLAPS

\* what is left of two numbers
Optional == {"requests", "window"}

\* a rate that applyRateLimitDefaultsToConfig would leave as it is
Full(rate) ==
    /\ rate \in Rate
    /\ \A n \in Numbers \ Optional : rate[n] > 0
    /\ rate["burst"] >= Scale

\* the numbers a policy means: its own, or the base's
Meant(base, own) ==
    [n \in Numbers |->
        LET meant == IF own[n] > 0 THEN own[n] ELSE base[n]
        IN  IF n = "burst" THEN AtLeast(Scale, meant) ELSE meant]

-----------------------------------------------------------------------------
(* Numbers *)

\* The quotient of config.go:463 is positive.
LEMMA QuotientPositive ==
    ASSUME NEW a \in Nat, NEW b \in Nat \ {0}, a >= b
    PROVE  a \div b \in Nat \ {0}
BY SMT

\* A window's share of the scaled requests, rounded up, is positive.
LEMMA ShareRoundedUp ==
    ASSUME NEW q \in Nat \ {0}, NEW w \in Nat \ {0}
    PROVE  /\ q * Scale + w - 1 \in Nat
           /\ q * Scale + w - 1 >= w
<1>1. Scale \in Nat /\ Scale >= 1
    BY ConfigurationAssumption
<1>2. q * Scale \in Nat /\ q * Scale >= 1
    BY <1>1, SMT
<1> QED
    BY <1>2

\* The base rate that is filled in is positive.
LEMMA BaseRatePositive ==
    ASSUME NEW rate \in Rate
    PROVE  BaseRate(rate) \in Nat \ {0}
<1>1. Scale \in Nat \ {0} /\ \A n \in Numbers : rate[n] \in Int
    BY ConfigurationAssumption DEF Rate
<1>2. CASE rate["base"] > 0
    BY <1>1, <1>2 DEF BaseRate, Numbers
<1>3. CASE ~ rate["base"] > 0 /\ rate["requests"] > 0 /\ rate["window"] > 0
    <2>1. rate["requests"] \in Nat \ {0} /\ rate["window"] \in Nat \ {0}
        BY <1>1, <1>3 DEF Numbers
    <2>2. (rate["requests"] * Scale + rate["window"] - 1) \div rate["window"] \in Nat \ {0}
        BY <2>1, ShareRoundedUp, QuotientPositive
    <2> QED
        BY <1>3, <2>2 DEF BaseRate
<1>4. CASE ~ rate["base"] > 0 /\ ~ (rate["requests"] > 0 /\ rate["window"] > 0)
    BY <1>1, <1>4 DEF BaseRate
<1> QED
    BY <1>2, <1>3, <1>4

\* applyRateLimitDefaultsToConfig leaves no number that a limiter cannot work with.
LEMMA FilledIsFull ==
    ASSUME NEW rate \in Rate
    PROVE  /\ Full(Filled(rate))
           /\ \A n \in Optional : Filled(rate)[n] = rate[n]
<1>1. Scale \in Nat \ {0} /\ \A n \in Numbers : rate[n] \in Int
    BY ConfigurationAssumption DEF Rate
<1>2. BaseRate(rate) \in Nat \ {0}
    BY BaseRatePositive
<1>3. Burst(rate) \in Nat \ {0} /\ Burst(rate) >= Scale
    BY <1>1, <1>2 DEF Burst, AtLeast, Numbers
<1>4. Sliding(rate) \in Nat \ {0}
    BY <1>1 DEF Sliding, Numbers
<1>5. \A n \in Numbers \ (Optional \cup {"base", "burst", "sliding"}) :
          Filled(rate)[n] = IF rate[n] > 0 THEN rate[n] ELSE Fallback[n]
    BY DEF Filled, Optional
<1>6. \A n \in Numbers \ (Optional \cup {"base", "burst", "sliding"}) :
          Fallback[n] \in Nat \ {0}
    BY DEF Fallback, Numbers, Optional
<1>7. \A n \in Optional : Filled(rate)[n] = rate[n]
    BY DEF Filled, Optional, Numbers
<1>8. /\ Filled(rate)["base"] = BaseRate(rate)
      /\ Filled(rate)["burst"] = Burst(rate)
      /\ Filled(rate)["sliding"] = Sliding(rate)
    BY DEF Filled, Numbers
<1>9. \A n \in Numbers \ Optional : Filled(rate)[n] \in Nat \ {0}
    BY <1>1, <1>2, <1>3, <1>4, <1>5, <1>6, <1>8
<1>10. \A n \in Numbers : Filled(rate)[n] \in Int
    BY <1>1, <1>7, <1>9 DEF Optional
<1>11. Filled(rate) = [n \in Numbers |-> Filled(rate)[n]]
    BY DEF Filled
<1>12. Filled(rate) \in Rate
    BY <1>10, <1>11 DEF Rate
<1>13. \A n \in Numbers \ Optional : Filled(rate)[n] > 0
    BY <1>9
<1> QED
    BY <1>3, <1>7, <1>8, <1>12, <1>13 DEF Full

\* What is full stays as it is.
LEMMA FullIsFixed ==
    ASSUME NEW rate, Full(rate)
    PROVE  Filled(rate) = rate
<1>1. rate = [n \in Numbers |-> rate[n]] /\ \A n \in Numbers : rate[n] \in Int
    BY DEF Full, Rate
<1>2. Scale \in Nat
    BY ConfigurationAssumption
<1>3. ASSUME NEW n \in Numbers PROVE Filled(rate)[n] = rate[n]
    <2>1. CASE n \in Optional
        BY <2>1 DEF Filled, Optional, Numbers
    <2>2. CASE n \notin Optional
        <3>1. rate[n] > 0 /\ rate["burst"] >= Scale
            BY <2>2 DEF Full
        <3>2. CASE n = "base"
            BY <3>1, <3>2 DEF Filled, BaseRate
        <3>3. CASE n = "burst"
            <4>1. Filled(rate)[n] = Burst(rate)
                BY <3>3 DEF Filled
            <4>2. Burst(rate) = rate["burst"]
                BY <3>1, <3>3, <1>1, <1>2 DEF Burst, AtLeast
            <4> QED
                BY <3>3, <4>1, <4>2
        <3>4. CASE n = "sliding"
            BY <3>1, <3>4 DEF Filled, Sliding
        <3>5. CASE n \notin {"base", "burst", "sliding"}
            BY <2>2, <3>1, <3>5 DEF Filled, Optional
        <3> QED
            BY <3>2, <3>3, <3>4, <3>5
    <2> QED
        BY <2>1, <2>2
<1>4. Filled(rate) = [n \in Numbers |-> Filled(rate)[n]]
    BY DEF Filled
<1> QED
    BY <1>1, <1>3, <1>4

\* A policy over a full base comes to the numbers it means, and they are full.
LEMMA OverrideMeans ==
    ASSUME NEW base, Full(base), NEW own \in Rate
    PROVE  /\ Filled(Override(base, own)) = Meant(base, own)
           /\ Full(Meant(base, own))
<1> DEFINE O == Override(base, own)
           M == Meant(base, own)
<1>1. Scale \in Nat \ {0} /\ \A n \in Numbers : own[n] \in Int /\ base[n] \in Int
    BY ConfigurationAssumption DEF Rate, Full
<1>2. \A n \in Numbers : O[n] = IF own[n] > 0 THEN own[n] ELSE base[n]
    BY DEF Override
<1>3. O \in Rate
    <2>1. \A n \in Numbers : (IF own[n] > 0 THEN own[n] ELSE base[n]) \in Int
        BY <1>1
    <2> QED
        BY <2>1 DEF Override, Rate
<1>4. \A n \in Numbers \ Optional : O[n] > 0
    BY <1>2 DEF Full
<1>5. Full(Filled(O)) /\ \A n \in Optional : Filled(O)[n] = O[n]
    BY <1>3, FilledIsFull
<1>6. ASSUME NEW n \in Numbers PROVE Filled(O)[n] = M[n]
    <2>1. CASE n \in Optional
        <3>1. M[n] = O[n]
            BY <1>2, <2>1 DEF Meant, Optional
        <3> QED
            BY <1>5, <2>1, <3>1
    <2>2. CASE n = "base"
        BY <1>2, <1>4, <2>2 DEF Filled, BaseRate, Meant, Optional, Numbers
    <2>3. CASE n = "burst"
        <3>1. Filled(O)[n] = Burst(O)
            BY <2>3 DEF Filled, Numbers
        <3>2. Burst(O) = AtLeast(Scale, O["burst"])
            BY <1>4, <2>3 DEF Burst, Optional, Numbers
        <3>3. M[n] = AtLeast(Scale, O["burst"])
            BY <1>2, <2>3 DEF Meant
        <3> QED
            BY <3>1, <3>2, <3>3
    <2>4. CASE n = "sliding"
        BY <1>2, <1>4, <2>4 DEF Filled, Sliding, Meant, Optional, Numbers
    <2>5. CASE n \notin Optional \cup {"base", "burst", "sliding"}
        <3>1. O[n] > 0
            BY <1>4, <2>5
        <3>2. Filled(O)[n] = O[n]
            BY <2>5, <3>1 DEF Filled, Optional
        <3>3. M[n] = O[n]
            BY <1>2, <2>5 DEF Meant
        <3> QED
            BY <3>2, <3>3
    <2> QED
        BY <2>1, <2>2, <2>3, <2>4, <2>5
<1>7. M = [n \in Numbers |-> M[n]] /\ Filled(O) = [n \in Numbers |-> Filled(O)[n]]
    BY DEF Meant, Filled
<1>8. Filled(O) = M
    BY <1>6, <1>7
<1> QED
    BY <1>5, <1>8

\* To resolve a policy again changes nothing.
LEMMA MeantAgain ==
    ASSUME NEW base, Full(base), NEW own \in Rate
    PROVE  Meant(base, Meant(base, own)) = Meant(base, own)
<1> DEFINE M == Meant(base, own)
<1>1. Full(M) /\ Scale \in Nat \ {0} /\ \A n \in Numbers : base[n] \in Int /\ own[n] \in Int
    BY OverrideMeans, ConfigurationAssumption DEF Full, Rate
<1>2. ASSUME NEW n \in Numbers PROVE Meant(base, M)[n] = M[n]
    <2>1. CASE n \notin Optional
        <3>1. M[n] > 0 /\ M["burst"] >= Scale /\ M[n] \in Int
            BY <1>1, <2>1 DEF Full, Rate
        <3> HIDE DEF M
        <3>2. Meant(base, M)[n] = IF n = "burst" THEN AtLeast(Scale, M[n]) ELSE M[n]
            BY <3>1 DEF Meant
        <3> QED
            BY <1>1, <3>1, <3>2 DEF AtLeast
    <2>2. CASE n \in Optional
        <3>1. M[n] = IF own[n] > 0 THEN own[n] ELSE base[n]
            BY <2>2 DEF Meant, Optional
        <3> HIDE DEF M
        <3>2. Meant(base, M)[n] = IF M[n] > 0 THEN M[n] ELSE base[n]
            BY <2>2 DEF Meant, Optional
        <3> QED
            BY <3>1, <3>2
    <2> QED
        BY <2>1, <2>2
<1>3. M = [n \in Numbers |-> M[n]] /\ Meant(base, M) = [n \in Numbers |-> Meant(base, M)[n]]
    BY DEF Meant
<1> QED
    BY <1>2, <1>3

\* A full rate gives both limiters what they need.
LEMMA FullIsSound ==
    ASSUME NEW rate, Full(rate)
    PROVE  SoundRate(rate)
<1>1. rate["base"] \in Nat \ {0} /\ rate["requests"] \in Int
    BY DEF Full, Rate, Numbers, Optional
<1>2. LocalWindow(rate) \in Nat \ {0}
    BY DEF Full, Rate, Numbers, LocalWindow, AtLeast
<1>3. LocalLimit(rate) > 0
    BY <1>1, <1>2, ConfigurationAssumption DEF LocalLimit, AtLeast
<1> QED
    BY <1>3 DEF SoundRate, Full, Optional
=============================================================================
