------------------------- MODULE OracleAggregator -------------------------
(***************************************************************************)
(* fetch_universal_fx of src/oracle/aggregator.rs and                      *)
(* verify_external_signal of src/oracle/mod.rs.  Currencies are handled    *)
(* one by one, so one is looked at.  What the three endpoints return is a  *)
(* triple of replies: a positive rate, NoRate (an answer without the       *)
(* currency) or NoReply (a request that failed).                           *)
(*                                                                         *)
(* Means are exact fractions num / den where the code computes in f64, and *)
(* the confidence interval, which no decision looks at, is left out.       *)
(***************************************************************************)
EXTENDS Integers

NoReply == -1
NoRate == 0

Endpoints == 1..3
Weights == <<2, 1, 1>>   \* in quarters

(* The sums over the sources, a source left out having no share in them.   *)
weighted_mean(sources, replies) ==
  LET share(i) == IF i \in sources THEN Weights[i] ELSE 0
  IN [num |-> share(1) * replies[1] + share(2) * replies[2] + share(3) * replies[3],
      den |-> share(1) + share(2) + share(3)]

(* |v - mean| / mean as hundredths of mean.num: compare it with            *)
(* percent * mean.num.                                                     *)
Difference(v, mean) ==
  LET d == v * mean.den - mean.num
  IN 100 * (IF d < 0 THEN -d ELSE d)

Quoted(replies) == {i \in Endpoints : replies[i] > 0}

(* weighted_values.retain: less than 10% from the mean of all.             *)
Retained(replies) ==
  LET mean == weighted_mean(Quoted(replies), replies)
  IN {i \in Quoted(replies) : Difference(replies[i], mean) < 10 * mean.num}

OracleFailure == [num |-> -1, den |-> 1]
NoMean == [num |-> 0, den |-> 1]

(* Mutant: the mean of those retained is taken over the weight of all.     *)
fetch_universal_fx_total_weight(replies) ==
  IF \A i \in Endpoints : replies[i] = NoReply THEN OracleFailure
  ELSE IF Retained(replies) = {} THEN NoMean
  ELSE [num |-> weighted_mean(Retained(replies), replies).num,
        den |-> weighted_mean(Quoted(replies), replies).den]

(* The rate of the currency, NoMean when no source is retained, or the     *)
(* error of no endpoint answering.                                         *)
fetch_universal_fx(replies) ==
  IF \A i \in Endpoints : replies[i] = NoReply THEN OracleFailure
  ELSE IF Retained(replies) = {} THEN NoMean
  ELSE weighted_mean(Retained(replies), replies)

(* The verdict on a signal that quotes payload_rate; NoRate stands for one *)
(* that is not ISO20022 or has no exchange_rate.  A currency without a     *)
(* rate is not compared.                                                   *)
signal_verdict(payload_rate, replies) ==
  LET fx == fetch_universal_fx(replies)
  IN IF fx = OracleFailure THEN "error"
     ELSE IF /\ payload_rate # NoRate /\ fx # NoMean
             /\ Difference(payload_rate, fx) > 5 * fx.num
     THEN "refused" ELSE "vouched"
=============================================================================
