------------------------------ MODULE Scoring -------------------------------
(***************************************************************************)
(* What an observation is taken for: the classes a fit gives to the        *)
(* mixture components (sensor_model/fit.py), the score of the observation  *)
(* (score.py, features.py), the fusion of score and image (fusion/         *)
(* engine.py, matlab_port_v1.py, python_v1.py, registry.py), and whether   *)
(* it becomes a member of a cluster (service.py:320-323).                  *)
(*                                                                         *)
(* One observation and its frames; models are fitted meanwhile.  A         *)
(* probability is a pair of odds <<for, against>>: the logit of a product  *)
(* of odds is the sum of their logits, a weight is an exponent, and 0.5 is *)
(* <<1, 1>>.  Densities and means come from the numeric libraries and may  *)
(* be anything.                                                            *)
(***************************************************************************)
EXTENDS Integers, Sequences, FiniteSets, Functions

CONSTANTS
    Raws,        \* the features an observation may have
    K,           \* settings.sensor_fit_k_default
    Norms,       \* values of the norm of a component mean
    Densities,   \* values of a weighted density
    Visuals,     \* odds of asset_frame.device_probability, or Missing
    Primary,     \* settings.fusion_engine_version = MATLAB_V1
    WS, WV,      \* settings.fusion_w_s, fusion_w_v, as exponents
    Cap,         \* odds at which logit clamps (1 / _EPS)
    RatioMean, RatioStd,  \* settings.fallback_ratio_mean, fallback_ratio_std
    SpeedRef,    \* settings.severity_speed_ref
    Scale,       \* settings.severity_scale
    MaxFits,     \* bound on the fits
    MaxPairs     \* bound on the frames paired with the observation

Missing == <<0, 0>>   \* NULL, where odds are expected
Null == -1            \* NULL, where a measurement is expected
Components == 0..K - 1
Classes == <<"not", "crack", "pothole">>

ASSUME ScoringAssumption ==
    /\ K \in Nat \ {0} /\ Cap \in Nat \ {0} /\ WS \in Nat /\ WV \in Nat
    /\ SpeedRef \in Nat \ {0} /\ Scale \in Nat /\ RatioMean \in Int /\ RatioStd \in Int
    /\ MaxFits \in Nat /\ MaxPairs \in Nat
ASSUME DataAssumption ==
    /\ Raws \subseteq [magnitude : Nat, std : Nat, speed : Nat \union {Null}]
    /\ Norms \subseteq Nat /\ Densities \subseteq Nat
    /\ Visuals \subseteq Nat \X Nat

VARIABLES
    raw,     \* the row of asset_observation
    models,  \* sensor_model: [norms, classes] of each fit, the last one active
    score,   \* the sensor_* columns, and the densities they come from
    pairs    \* rows of fusion_pair: the terms and what they were fused to

scoringVars == <<raw, models, score, pairs>>

Unscored == [version |-> 0, class |-> "none", odds |-> Missing, outlier |-> FALSE,
             severity |-> Null, densities |-> [i \in Components |-> 0]]

ScoringInit ==
    /\ raw \in Raws
    /\ models = <<>>
    /\ score = Unscored
    /\ pairs = <<>>

-----------------------------------------------------------------------------
Least(a, b) == IF a <= b THEN a ELSE b
Most(a, b) == IF a >= b THEN a ELSE b

\* Place of a component in a stable sort by energy.
Rank(norms, i) ==
    Cardinality({j \in Components : norms[j] < norms[i] \/ (norms[j] = norms[i] /\ j < i)})

ClassOfDescending(norms, i) == Classes[3 - Least(Rank(norms, i), 2)]  \* mutant
ClassOf(norms, i) == Classes[1 + Least(Rank(norms, i), 2)]

Fit(norms) ==
    /\ Len(models) < MaxFits
    /\ models' = Append(models, [norms |-> norms,
                                 classes |-> [i \in Components |-> ClassOf(norms, i)]])
    /\ UNCHANGED <<raw, score, pairs>>

-----------------------------------------------------------------------------
\* compute_ratio
Ratio(r) == IF r.std = 0 THEN 0 ELSE r.magnitude \div r.std

\* Mutant of Severity: speed_ref replaces an unknown speed only.
SeverityUnfloored(r) ==
    LET speed == IF r.speed <= 0 THEN SpeedRef ELSE r.speed
    IN  Least(100, (100 * Scale * r.magnitude) \div speed)
\* severity, in hundredths
Severity(r) ==
    LET speed == Most(r.speed, 0)
    IN  Least(100, (100 * Scale * r.magnitude) \div Most(speed, SpeedRef))

\* Sum of the densities of the components of a class.
Mass(classes, dens, c) == SumFunctionOnSet(dens, {i \in Components : classes[i] = c})
Total(dens) == SumFunctionOnSet(dens, Components)

\* max(posteriors, key=posteriors.get): the first of the largest, in the
\* order in which the components bring the classes in.
Likeliest(classes, dens) ==
    LET M(i) == Mass(classes, dens, classes[i])
    IN  classes[CHOOSE i \in Components :
            \A j \in Components : M(j) < M(i) \/ (M(j) = M(i) /\ i <= j)]

Scored(version, dens, outlier) ==
    LET classes == models[version].classes
        p == Mass(classes, dens, "pothole")
        none == Total(dens) = 0
    IN  [version |-> version,
         class |-> IF none THEN "not" ELSE Likeliest(classes, dens),
         odds |-> IF none THEN <<0, 1>> ELSE <<p, Total(dens) - p>>,
         outlier |-> none \/ outlier,
         severity |-> Severity(raw),
         densities |-> dens]

\* Mutant of Score: what no component explains is scored 0.5.
ScoreUnexplained(dens, outlier) ==
    /\ models # <<>> /\ score = Unscored
    /\ score' = [Scored(Len(models), dens, outlier) EXCEPT
                     !.odds = IF Total(dens) = 0 THEN <<1, 1>> ELSE @]
    /\ UNCHANGED <<raw, models, pairs>>

\* score_observation with the active model, and the UPDATE.
Score(dens, outlier) ==
    /\ models # <<>> /\ score = Unscored
    /\ score' = Scored(Len(models), dens, outlier)
    /\ UNCHANGED <<raw, models, pairs>>

-----------------------------------------------------------------------------
\* logit, which clamps, of a probability given as odds.
Unclamped(o) == o   \* mutant
Clamped(o) ==
    IF o[1] > Cap * o[2] THEN <<Cap, 1>>
    ELSE IF o[2] > Cap * o[1] THEN <<1, Cap>> ELSE o

Power(base, n) ==
    LET p[i \in 0..n] == IF i = 0 THEN 1 ELSE base * p[i - 1]
    IN  p[n]

\* A term of the sum: a missing one is dropped.
Weighted(o, w) == <<Power(Clamped(o)[1], w), Power(Clamped(o)[2], w)>>
TermCoalesced(o, w) == IF o = Missing THEN Weighted(<<0, 1>>, w) ELSE Weighted(o, w)
    \* mutant: a missing probability is read as 0
Term(o, w) == IF o = Missing THEN <<1, 1>> ELSE Weighted(o, w)

\* sigmoid of the sum of the terms; of no term at all, 0.5.
Fuse(s, v) == <<Term(s, WS)[1] * Term(v, WV)[1], Term(s, WS)[2] * Term(v, WV)[2]>>

\* Sensor term of the fallback: sigmoid of the standardized ratio, a unit of
\* which doubles the odds.
Heuristic(r) ==
    LET z == (Ratio(r) - RatioMean) \div (IF RatioStd > 0 THEN RatioStd ELSE 1)
    IN  IF z >= 0 THEN <<Power(2, z), 1>> ELSE <<1, Power(2, -z)>>

\* get_engine, and the sensor term of the engine it returns.
Engine == IF models # <<>> /\ Primary THEN "matlab_port_v1" ELSE "python_v1"
SensorTerm == IF Engine = "python_v1" THEN Heuristic(raw) ELSE score.odds

\* One frame of the batch of _pair_and_fuse, with its device_probability.
Pair(v) ==
    /\ Len(pairs) < MaxPairs
    /\ pairs' = Append(pairs, [engine |-> Engine, sensor |-> SensorTerm, visual |-> v,
                               fused |-> Fuse(SensorTerm, v)])
    /\ UNCHANGED <<raw, models, score>>

ScoringNext ==
    \/ \E norms \in [Components -> Norms] : Fit(norms)
    \/ \E dens \in [Components -> Densities], outlier \in BOOLEAN : Score(dens, outlier)
    \/ \E v \in Visuals : Pair(v)

ScoringSpec == ScoringInit /\ [][ScoringNext]_scoringVars

-----------------------------------------------------------------------------
ScoringTypeOK ==
    /\ raw \in Raws
    /\ Len(models) <= MaxFits /\ Len(pairs) <= MaxPairs
    /\ score.version \in 0..Len(models)
    /\ score.class \in {Classes[i] : i \in DOMAIN Classes} \union {"none"}
    /\ \A i \in DOMAIN pairs : pairs[i].fused \in (Nat \ {0}) \X (Nat \ {0})

\* At least cluster_member_min_confidence, whose default is 0.5.
Confirms(o) == o[1] >= o[2]
Speaks(o) == o # Missing /\ Confirms(o)
Denies(o) == o # Missing /\ ~Confirms(o)

ByClass == score.class = "pothole" /\ ~score.outlier
Member == ByClass \/ \E i \in DOMAIN pairs : Confirms(pairs[i].fused)

\* From the means of the fit to the stored class, across later fits: an
\* observation is a pothole only if the components of the highest energies,
\* all but two, explain it at least as well as each of those two
\* (fit.py:113-122, score.py:28-45, 84).
PotholeIsHighEnergy ==
    score.class = "pothole" =>
        \E S \in SUBSET Components :
            /\ Cardinality(S) = K - 2
            /\ \A i \in S, j \in Components \ S :
                   /\ models[score.version].norms[i] >= models[score.version].norms[j]
                   /\ SumFunctionOnSet(score.densities, S) >= score.densities[j]

\* What no component explains becomes a member only by an image that speaks
\* for a pothole, or by a pair that was fused without its score
\* (score.py:39-41, 78-82; service.py:320-323).
UnexplainedNeedsImage ==
    score # Unscored /\ Total(score.densities) = 0 /\ Member =>
        \E i \in DOMAIN pairs :
            /\ Confirms(pairs[i].fused)
            /\ Speaks(pairs[i].visual) \/ pairs[i].sensor # score.odds

\* A pair is confirmed only if one of its terms speaks for a pothole or it
\* has none, and is denied only by a term: NULLs decide nothing
\* (matlab_port_v1.py:9-11, python_v1.py:60-63).
DecidedByATerm ==
    \A i \in DOMAIN pairs :
        LET terms == {pairs[i].sensor, pairs[i].visual}
        IN  IF Confirms(pairs[i].fused)
            THEN terms = {Missing} \/ \E o \in terms : Speaks(o)
            ELSE \E o \in terms : Denies(o)

\* "a large jolt at low speed implies a rougher defect" (features.py:76-78):
\* the same impact, measured more slowly or at an unknown speed, is never
\* less severe.
SlowerIsWorse ==
    score # Unscored =>
        \A r \in Raws : r.magnitude = raw.magnitude /\ r.speed <= raw.speed =>
            Severity(r) >= score.severity

\* "observations in a high-confidence fusion pair" (service.py:297): a member
\* has something that speaks for it.
MemberHasEvidence ==
    Member => ByClass \/ \E i \in DOMAIN pairs :
                  Speaks(pairs[i].sensor) \/ Speaks(pairs[i].visual)

\* "the ratio is treated as 0.0 (neutral - the event carries no
\* discriminating sensor signal)" (features.py:30-31).
NoFloorIsNeutral ==
    \A i \in DOMAIN pairs : pairs[i].engine = "python_v1" /\ raw.std = 0 =>
        pairs[i].sensor = <<1, 1>>
=============================================================================
