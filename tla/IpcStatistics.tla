----------------------------- MODULE IpcStatistics ------------------------------
(***************************************************************************)
(* PrintResults of iostest/ipc_timing.cpp: the mean and the deviation of the    *)
(* ticks of one test, one turn of a loop a step.  Everything is u64 until the *)
(* squares are added up in a double: a tick below the mean leaves a difference  *)
(* that has wrapped round.  Word stands for 2^64.                           *)
(***************************************************************************)
EXTENDS Integers, Sequences

CONSTANTS
    Word,           \* how many values a u64 has
    Ticks,          \* the ticks a command may take
    MaxResults      \* bounds the iterations of Test (1000)

ASSUME WordsCounted == Word \in Nat \ {0}
ASSUME TicksFit == Ticks \subseteq 0 .. Word - 1

VARIABLES
    sample,     \* results: the ticks, in the order of the iterations
    turn,       \* the loop that runs: "measuring", "adding", "squaring" or "printing"
    seen,       \* how many results that loop has been through
    mean,       \* mean_ack_ticks, which first holds the sum
    acc,        \* acc_ack
    exact       \* what acc_ack is meant to hold: the squares of the distances

statistics == <<sample, turn, seen, mean, acc, exact>>

-----------------------------------------------------------------------------
StatisticsInit ==
    /\ sample = <<>> /\ turn = "measuring" /\ seen = 0
    /\ mean = 0 /\ acc = 0 /\ exact = 0

RecordTicks ==      \* results.emplace_back
    /\ turn = "measuring" /\ Len(sample) < MaxResults
    /\ \E t \in Ticks : sample' = Append(sample, t)
    /\ UNCHANGED <<turn, seen, mean, acc, exact>>

StartPrinting ==    \* unless results.empty()
    /\ turn = "measuring" /\ sample # <<>>
    /\ turn' = "adding"
    /\ UNCHANGED <<sample, seen, mean, acc, exact>>

AddTicks ==
    /\ turn = "adding" /\ seen < Len(sample)
    /\ mean' = (mean + sample[seen + 1]) % Word
    /\ seen' = seen + 1
    /\ UNCHANGED <<sample, turn, acc, exact>>

Average ==
    /\ turn = "adding" /\ seen = Len(sample)
    /\ mean' = mean \div Len(sample)
    /\ turn' = "squaring" /\ seen' = 0
    /\ UNCHANGED <<sample, acc, exact>>

SquaredWide(d) == d * d         \* mutant: in more bits than a u64 has
Squared(d) == (d * d) % Word

AddSquare ==
    /\ turn = "squaring" /\ seen < Len(sample)
    /\ LET t == sample[seen + 1]
       IN /\ acc' = acc + Squared((t - mean) % Word)
          /\ exact' = exact + (t - mean) * (t - mean)
    /\ seen' = seen + 1
    /\ UNCHANGED <<sample, turn, mean>>

PrintDeviation ==
    /\ turn = "squaring" /\ seen = Len(sample)
    /\ turn' = "printing"
    /\ UNCHANGED <<sample, seen, mean, acc, exact>>

Printed == turn = "printing" /\ UNCHANGED statistics

StatisticsNext ==
    \/ RecordTicks \/ StartPrinting \/ AddTicks \/ Average \/ AddSquare
    \/ PrintDeviation \/ Printed

StatisticsSpec == StatisticsInit /\ [][StatisticsNext]_statistics

-----------------------------------------------------------------------------
(* Every variable keeps its type. *)
StatisticsTypeOK ==
    /\ sample \in Seq(Ticks) /\ turn \in {"measuring", "adding", "squaring", "printing"}
    /\ seen \in 0 .. Len(sample) /\ mean \in 0 .. Word - 1 /\ acc \in Nat /\ exact \in Nat

(* Wrapping round does no harm: as long as the square of every distance from    *)
(* the mean fits a u64, the sum is that of the squares of the true distances.  *)
DeviationExact ==
    (\A n \in 1 .. seen : (sample[n] - mean) * (sample[n] - mean) < Word) /\ turn = "printing" =>
        acc = exact
=============================================================================
