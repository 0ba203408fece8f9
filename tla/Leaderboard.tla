----------------------------- MODULE Leaderboard -----------------------------
(***************************************************************************)
(* waveform_leaderboard.py: a split of labelled waveforms, the predictions *)
(* of one model for it, and the board that ranks such results by exact     *)
(* accuracy with competition ranks.  A split stands for its fingerprint;   *)
(* the waveforms are part of its name, which the board only compares.      *)
(***************************************************************************)
EXTENDS Integers, Sequences, FiniteSets, Functions

CONSTANTS Evaluations, \* [model_id, training_status, split, predictions], valid or not
          Lists,      \* tuples of indices of evaluations handed to build_leaderboard
          MAX_RESULTS,
          CLASSES     \* 0..2
ASSUME LeaderboardAssumption ==
  /\ CLASSES \subseteq Nat /\ CLASSES # {} /\ MAX_RESULTS \in Nat /\ Lists \subseteq Seq(DOMAIN Evaluations)
  /\ \A i \in DOMAIN Evaluations : LET r == Evaluations[i]
                                   IN  /\ r.model_id \in Nat /\ r.predictions \in Seq(Nat)
                                       /\ r.split.targets \in Seq(Nat)

VARIABLE board
BoardInit == board = [made |-> "none"]

\* _class_ids and __post_init__ of SyntheticSplit: 3..256 labels of all classes.
ValidSplit(split) == Len(split.targets) \in 3..256 /\ Range(split.targets) = CLASSES

\* __post_init__ of EvaluationResult
ValidResult(r) == /\ ValidSplit(r.split) /\ r.training_status \in {"untrained", "trained"}
                  /\ Len(r.predictions) = Len(r.split.targets) /\ Range(r.predictions) \subseteq CLASSES

Correct(r) == Cardinality({i \in DOMAIN r.predictions : r.predictions[i] = r.split.targets[i]})
\* Fraction(correct, len(predictions)), compared exactly
Better(r, s) == Correct(r) * Len(s.predictions) > Correct(s) * Len(r.predictions)
Same(r, s) == ~Better(r, s) /\ ~Better(s, r)
Before(r, s) == Better(r, s) \/ (Same(r, s) /\ r.model_id < s.model_id)

Comparable(results) ==
  /\ Len(results) <= MAX_RESULTS
  /\ \A i, j \in DOMAIN results : i # j => results[i].model_id # results[j].model_id
  /\ \A i, j \in DOMAIN results : /\ results[i].split = results[j].split
                                  /\ results[i].training_status = results[j].training_status

Sorted(S) == CHOOSE s \in [1..Cardinality(S) -> S] : \A p, q \in DOMAIN s : p < q => Before(s[p], s[q])

\* Mutant: the next rank is one more than the last.
DenseRank(last, position, first) == IF first THEN last + 1 ELSE last

\* A score that differs from the one above takes its position as its rank.
NextRank(last, position, first) == IF first THEN position ELSE last

Ranks(ordered) ==
  LET rank[p \in 0..Len(ordered)] ==
        IF p = 0 THEN 0
        ELSE NextRank(rank[p - 1], p, p = 1 \/ ~Same(ordered[p], ordered[p - 1]))
  IN  [p \in DOMAIN ordered |-> rank[p]]

BuildLeaderboard(results) ==
  IF ~Comparable(results) THEN [made |-> "ValueError", results |-> results]
  ELSE LET ordered == Sorted(Range(results))
           ranks == Ranks(ordered)
       IN [made |-> "board", results |-> results,
           rows |-> [p \in DOMAIN ordered |-> [rank |-> ranks[p], model_id |-> ordered[p].model_id,
                                               correct |-> Correct(ordered[p])]]]

-----------------------------------------------------------------------------

Evaluate(r) == board' = [made |-> IF ValidResult(r) THEN "result" ELSE "ValueError", results |-> <<r>>]
Build(list) == /\ \A i \in DOMAIN list : ValidResult(Evaluations[list[i]])
               /\ board' = BuildLeaderboard([i \in DOMAIN list |-> Evaluations[list[i]]])
BoardNext == /\ board.made = "none"
             /\ (\E i \in DOMAIN Evaluations : Evaluate(Evaluations[i])) \/ (\E list \in Lists : Build(list))
BoardSpec == BoardInit /\ [][BoardNext]_board

\* Every result has one row, whose rank is one more than the number of results
\* that are strictly better, whatever the order they were handed over in; rows
\* of one rank are in the order of their names, and only results of one split
\* and training status share a board, no more of them than it may have.
RanksAreCompetition ==
  board.made = "board" =>
    /\ Len(board.rows) = Len(board.results)
    /\ \A p \in DOMAIN board.rows : \E i \in DOMAIN board.results :
         LET row == board.rows[p]
             r == board.results[i]
         IN /\ r.model_id = row.model_id /\ row.correct = Correct(r)
            /\ row.rank = 1 + Cardinality({j \in DOMAIN board.results : Correct(board.results[j]) > Correct(r)})
            /\ \A q \in 1..p - 1 : /\ board.rows[q].rank <= row.rank
                                   /\ board.rows[q].rank = row.rank => board.rows[q].model_id < row.model_id
    /\ Len(board.rows) <= MAX_RESULTS
    /\ \A i, j \in DOMAIN board.results :
         /\ board.results[i].split = board.results[j].split
         /\ board.results[i].training_status = board.results[j].training_status
=============================================================================
