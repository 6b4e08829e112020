------------------------------ MODULE Scorecard ------------------------------
(* The champion: the candidates are binned and screened (scoring/experiment.py), *)
(* the card is fitted and its wrong signs eliminated, one a round, and it scores *)
(* and explains (scoring/scorecard.py).                                          *)
(*                                                                               *)
(* A fit is an oracle: its coefficients are chosen, as the data might have it.   *)
(* Scores are on a scale where the points per unit of log-odds are a factor.     *)
EXTENDS Integers, Sequences, FiniteSets, FiniteSetsExt, SequencesExt

CONSTANTS
    Candidates,     \* the names of the features, in the order they are binned
    IvFloor, IvCeiling,
    Iv,             \* information values that occur
    Unbinnable,     \* in place of one: fit_binning() raised
    Size, Minimum, MaxRounds,
    Woe,            \* the weights of evidence of a characteristic's bins
    Coefficient,    \* what a fit may give
    Factor, Offset, \* of the points scale
    TopReasons      \* how many reasons a decision states

VARIABLES
    screened,       \* the verdict on each candidate so far: its IV, or Unbinnable
    selected,       \* the characteristics of the card, once there is a pool
    spare,          \* the rest of the pool
    steps,          \* the log of the elimination
    card,           \* characteristic -> coefficient, when the elimination ended
    phase           \* "screening", "fitting", "clean", "not_clean" or "refused"

scorecardVars == <<screened, selected, spare, steps, card, phase>>

NoCard == [c \in {} |-> 0]

Init ==
    /\ screened = <<>>
    /\ selected = <<>> /\ spare = <<>> /\ steps = <<>>
    /\ card = NoCard
    /\ phase = "screening"

-----------------------------------------------------------------------------
(* Screening.                                                              *)

\* screen_iv(): above the ceiling is an alarm, not a strong feature.
ScreenIv(iv) ==
    CASE iv = Unbinnable -> "unbinnable"
      [] iv # Unbinnable /\ iv < IvFloor -> "drop"
      [] iv # Unbinnable /\ iv > IvCeiling -> "investigate"
      [] OTHER -> "pass"

IvOf(name) == screened[CHOOSE i \in DOMAIN screened : Candidates[i] = name]

\* Names in descending order of IV, those of equal IV in the order they were binned.
ByIv(names) == SortSeq(SelectSeq(Candidates, LAMBDA c : c \in names),
                       LAMBDA a, b : IvOf(a) > IvOf(b))

Screened(verdicts) ==
    {Candidates[i] : i \in {j \in DOMAIN screened : ScreenIv(screened[j]) \in verdicts}}

\* Mutant: what only the leakage alarm holds back goes through.
PoolWithLeaks == ByIv(Screened({"pass", "investigate"}))

\* The champion draws on what passed; the challenger on all but the alarms.
Pool == ByIv(Screened({"pass"}))
Usable == ByIv(Screened({"pass", "drop"}))

Screen(iv) ==
    /\ phase = "screening"
    /\ Len(screened) < Len(Candidates)
    /\ screened' = Append(screened, iv)
    /\ UNCHANGED <<selected, spare, steps, card, phase>>

\* The pool is cut at the size of the card.  Too small a card raises, and the run ends.
StartFitting ==
    LET size == Min({Size, Len(Pool)}) IN
    /\ phase = "screening"
    /\ Len(screened) = Len(Candidates)
    /\ phase' = IF size < Minimum THEN "refused" ELSE "fitting"
    /\ selected' = SubSeq(Pool, 1, size)
    /\ spare' = SubSeq(Pool, size + 1, Len(Pool))
    /\ UNCHANGED <<screened, steps, card>>

-----------------------------------------------------------------------------
(* fit_scorecard_stepwise().                                               *)

Fits == [Range(selected) -> Coefficient]

\* The first of the most negative, in the order of the card.
Worst(fit) ==
    selected[CHOOSE i \in DOMAIN selected :
        /\ \A j \in DOMAIN selected : fit[selected[i]] <= fit[selected[j]]
        /\ \A j \in 1..(i - 1) : fit[selected[j]] > fit[selected[i]]]

Negative(fit) == {c \in DOMAIN fit : fit[c] < 0}

End(fit, how) ==
    /\ card' = fit
    /\ phase' = how
    /\ UNCHANGED <<screened, selected, spare, steps>>

Clean(fit) ==
    /\ phase = "fitting" /\ Len(steps) < MaxRounds
    /\ fit[Worst(fit)] >= 0
    /\ End(fit, "clean")

\* Nothing is left to trade: the card is returned with its wrong signs.
Exhausted(fit) ==
    /\ phase = "fitting" /\ Len(steps) < MaxRounds
    /\ fit[Worst(fit)] < 0
    /\ Len(selected) <= Minimum /\ spare = <<>>
    /\ End(fit, "not_clean")

\* Mutant: off by one, a card at its minimum still loses a characteristic.
EliminateBelow(fit) ==
    LET worst == Worst(fit)
        kept == SelectSeq(selected, LAMBDA c : c # worst)
        added == SubSeq(spare, 1, Min({1, Len(spare)}))
    IN /\ phase = "fitting" /\ Len(steps) < MaxRounds
       /\ fit[worst] < 0
       /\ ~(Len(selected) < Minimum /\ spare = <<>>)
       /\ selected' = kept \o added
       /\ spare' = SubSeq(spare, 2, Len(spare))
       /\ steps' = Append(steps, [dropped |-> worst, added |-> added, remaining |-> Len(kept \o added)])
       /\ UNCHANGED <<screened, card, phase>>

\* The most negative characteristic goes, and the next of the pool takes its place.
Eliminate(fit) ==
    LET worst == Worst(fit)
        kept == SelectSeq(selected, LAMBDA c : c # worst)
        added == SubSeq(spare, 1, Min({1, Len(spare)}))
    IN /\ phase = "fitting" /\ Len(steps) < MaxRounds
       /\ fit[worst] < 0
       /\ ~(Len(selected) <= Minimum /\ spare = <<>>)
       /\ selected' = kept \o added
       /\ spare' = SubSeq(spare, 2, Len(spare))
       /\ steps' = Append(steps, [dropped |-> worst, added |-> added, remaining |-> Len(kept \o added)])
       /\ UNCHANGED <<screened, card, phase>>

\* Mutant: the card of the last round is reported as clean.
LastFitUnchecked(fit) ==
    /\ phase = "fitting" /\ Len(steps) = MaxRounds
    /\ End(fit, "clean")

\* The rounds are used up: one more fit, and its signs decide.
LastFit(fit) ==
    /\ phase = "fitting" /\ Len(steps) = MaxRounds
    /\ End(fit, IF Negative(fit) = {} THEN "clean" ELSE "not_clean")

Next ==
    \/ \E iv \in Iv \cup {Unbinnable} : Screen(iv)
    \/ StartFitting
    \/ \E fit \in Fits : Clean(fit) \/ Exhausted(fit) \/ Eliminate(fit) \/ LastFit(fit)

Spec == Init /\ [][Next]_scorecardVars

-----------------------------------------------------------------------------
(* Scoring.  A row gives each characteristic the weight of evidence of its bin.  *)

Rows == [DOMAIN card -> Woe]
Contribution(row, c) == card[c] * row[c]
BestContribution(c) == Max({card[c] * w : w \in Woe})
LogOdds(row) == MapThenSumSet(LAMBDA c : Contribution(row, c), DOMAIN card)
Points(row) == Offset + Factor * LogOdds(row)

\* Mutant: the superseded rule, by the contribution itself.
LargestNegative(row, c) == -Contribution(row, c)

\* How far below the best attainable: "why you".
Shortfall(row, c) == BestContribution(c) - Contribution(row, c)

Rank(c) == CHOOSE i \in DOMAIN Candidates : Candidates[i] = c

\* Ranked by shortfall, ties by name; the first few, and of these none without one.
Reasons(row) ==
    LET Before(a, b) ==
            \/ Shortfall(row, a) > Shortfall(row, b)
            \/ Shortfall(row, a) = Shortfall(row, b) /\ Rank(a) < Rank(b)
        ranked == SortSeq(SetToSeq(DOMAIN card), Before)
    IN SelectSeq(SubSeq(ranked, 1, Min({TopReasons, Len(ranked)})), LAMBDA c : Shortfall(row, c) > 0)

-----------------------------------------------------------------------------
(* Properties.                                                             *)

Built == phase \in {"clean", "not_clean"}

\* The third value returned is true of the card returned with it.
SignsAsReported == Built => (phase = "clean" <=> Negative(card) = {})

\* Replayed from the pool, the log gives the card; so it names every characteristic that
\* came and went, none comes back, and each that came was the best of those left.
Replayed ==
    LET size == Min({Size, Len(Pool)})
        after[k \in 0..Len(steps)] ==
            IF k = 0 THEN SubSeq(Pool, 1, size)
            ELSE SelectSeq(after[k - 1], LAMBDA c : c # steps[k].dropped) \o steps[k].added
    IN after[Len(steps)]
LogReplays ==
    phase # "screening" =>
        /\ selected = Replayed
        /\ Len(selected) + Len(spare) + Len(steps) = Len(Pool)
        /\ \A k \in DOMAIN steps : steps[k].dropped \notin Range(selected) \cup Range(spare)
        /\ \A a \in Range(selected), b \in Range(spare) : IvOf(a) >= IvOf(b)

\* The card keeps its size while the pool lasts and is never cut below the minimum.
CardKeepsItsSize ==
    phase \notin {"screening", "refused"} =>
        Len(selected) >= Minimum /\ (Len(selected) = Min({Size, Len(Pool)}) \/ spare = <<>>)

\* What the leakage alarm held back is neither on the card nor with the challenger, and
\* the champion has nothing that the challenger has not.
LeaksStayOut ==
    \A c \in Range(selected) : IvOf(c) >= IvFloor /\ IvOf(c) <= IvCeiling /\ c \in Range(Usable)

\* The reasons are the largest shortfalls, and all of them together are what parts the
\* applicant from the best score there is.
ReasonsExplain ==
    Built => \A row \in Rows :
        LET best == [c \in DOMAIN card |-> CHOOSE w \in Woe : card[c] * w = BestContribution(c)]
            stated == Range(Reasons(row))
        IN /\ Points(best) - Points(row)
                = Factor * MapThenSumSet(LAMBDA c : Shortfall(row, c), DOMAIN card)
           /\ stated = {} <=> LogOdds(row) = LogOdds(best)
           /\ \A c \in stated, d \in DOMAIN card \ stated : Shortfall(row, c) >= Shortfall(row, d)
           /\ Len(Reasons(row)) < TopReasons =>
                MapThenSumSet(LAMBDA c : Shortfall(row, c), stated) = LogOdds(best) - LogOdds(row)

ScorecardSound ==
    /\ SignsAsReported
    /\ LogReplays
    /\ CardKeepsItsSize
    /\ LeaksStayOut
    /\ ReasonsExplain

=============================================================================
