-------------------------------- MODULE Filters --------------------------------
(***************************************************************************)
(* The filters the control loops smooth their data with (median_filter.c,  *)
(* average_filter.c, outlier_filter.c, fir_lp_filter.c), fed with one      *)
(* signal of whole numbers, and reset at any time.  The low-pass filter    *)
(* with a feedback, whose values are no whole numbers, is in Heading.      *)
(*                                                                         *)
(* Sums and weighted sums stand for the quotients the code returns: the    *)
(* sum of average_filter_update is not divided by the size, the value of   *)
(* fir_lp_filter_update is taken 2 * Scale times.                          *)
(*                                                                         *)
(* A definition named X_Variant is not part of the model: it is X with a   *)
(* plausible slip in the code, kept to see that a property notices it.     *)
(***************************************************************************)
EXTENDS Integers, SequencesExt

CONSTANTS
  Values,          \* of the signal
  MedSize,         \* size of the median filter
  AvgSize,         \* size of the average filter
  MDiff, Limit,    \* mdiff and limit of the outlier filter
  Gain, Scale      \* the gain of the FIR filter is Gain / Scale

FilterConstantsOK ==
  /\ Values \subseteq Nat /\ MedSize \in Nat \ {0} /\ AvgSize \in Nat \ {0}
  /\ MDiff \in Nat /\ Limit \in Nat \ {0} /\ Scale \in Nat \ {0} /\ Gain \in 0..Scale

VARIABLES
  mArray,          \* mf_state_t: array
  aArray, aIndex,  \* af_state_t: array and index
  ofValue, ofCount,\* of_state_t: value and count
  fValue,          \* fir_state_t: value
  out,             \* what the updates of the four filters returned last
  recent,          \* history: the last updates, and zeros for those before the reset
  count,           \* history: updates since the reset, up to the length of recent
  rising           \* history: none of them was below the one before

vars == <<mArray, aArray, aIndex, ofValue, ofCount, fValue, out, recent, count, rising>>

Zeros(n) == [i \in 1..n |-> 0]
NoOutput == [median |-> 0, sum |-> 0, outlier |-> 0, fir |-> 0]
Span == Max({MedSize, AvgSize, Limit, 2}) + 1

\* ..._filter_init, which ends with ..._filter_reset
Init ==
  /\ mArray = Zeros(MedSize) /\ aArray = Zeros(AvgSize) /\ aIndex = 1
  /\ ofValue = 0 /\ ofCount = 0 /\ fValue = Zeros(3) /\ out = NoOutput
  /\ recent = Zeros(Span) /\ count = 0 /\ rising = TRUE

(***************************************************************************)
(* The updates                                                             *)
(***************************************************************************)
\* median_filter_update: the update goes before the values above it, and the largest value
\* is dropped; if none is above it, it goes to the end, and the smallest is dropped.
Above_OrEqual(a, u) == { i \in DOMAIN a : u <= a[i] }
Above(a, u) == { i \in DOMAIN a : u < a[i] }

MedianUpdate_KeepsLargest(a, u) ==
  IF Above(a, u) = {} THEN Append(Tail(a), u) ELSE Tail(InsertAt(a, Min(Above(a, u)), u))
MedianUpdate_DropsLargest(a, u) ==
  IF Above(a, u) = {} THEN [a EXCEPT ![MedSize] = u] ELSE Front(InsertAt(a, Min(Above(a, u)), u))
MedianUpdate(a, u) ==
  IF Above(a, u) = {} THEN Append(Tail(a), u) ELSE Front(InsertAt(a, Min(Above(a, u)), u))

Middle == (MedSize \div 2) + 1

\* average_filter_update
NextIndex_TooEarly(i) == IF i + 1 >= AvgSize THEN 1 ELSE i + 1
NextIndex(i) == IF i = AvgSize THEN 1 ELSE i + 1
Sum(s) == FoldSeq(+, 0, s)

\* outlier_filter_update
Distance(a, b) == IF a < b THEN b - a ELSE a - b
IsOutlier_Unlimited(u) == Distance(ofValue, u) > MDiff
IsOutlier_OneTooEarly(u) == Distance(ofValue, u) > MDiff /\ ofCount + 1 < Limit
IsOutlier(u) == Distance(ofValue, u) > MDiff /\ ofCount < Limit

\* fir_lp_filter_update
Weighted_GainTwice(v) == Gain * v[1] + 2 * Gain * v[2] + Gain * v[3]
Weighted(v) == (Scale - Gain) * v[1] + 2 * Gain * v[2] + (Scale - Gain) * v[3]

Update(u) ==
  /\ mArray' = MedianUpdate(mArray, u)
  /\ aArray' = [aArray EXCEPT ![aIndex] = u] /\ aIndex' = NextIndex(aIndex)
  /\ IF IsOutlier(u) THEN ofCount' = ofCount + 1 /\ UNCHANGED ofValue
                     ELSE ofCount' = 0 /\ ofValue' = u
  /\ fValue' = Append(Tail(fValue), u)
  /\ out' = [median |-> mArray'[Middle], sum |-> Sum(aArray'), outlier |-> ofValue',
             fir |-> Weighted(fValue')]
  /\ recent' = Append(Tail(recent), u)
  /\ count' = Min({count + 1, Span})
  /\ rising' = (rising /\ u >= Last(recent))

Reset ==
  /\ mArray' = Zeros(MedSize) /\ aArray' = Zeros(AvgSize) /\ aIndex' = 1
  /\ ofValue' = 0 /\ ofCount' = 0 /\ fValue' = Zeros(3) /\ out' = NoOutput
  /\ recent' = Zeros(Span) /\ count' = 0 /\ rising' = TRUE

Next == Reset \/ \E u \in Values : Update(u)
Spec == Init /\ [][Next]_vars

LastOf(n) == SubSeq(recent, Span - n + 1, Span)
InOrder(s) == \A i, j \in DOMAIN s : i < j => s[i] <= s[j]
\* x is what s has in its middle when it is brought in order.
IsMedian(x, s) ==
  /\ x \in Range(s)
  /\ Cardinality({ i \in DOMAIN s : s[i] < x }) < Middle
  /\ Cardinality({ i \in DOMAIN s : s[i] <= x }) >= Middle
IsConstant(n) == \A i \in 1..n : LastOf(n)[i] = Last(recent)

TypeOK ==
  /\ \A a \in {mArray, aArray, fValue} : \A i \in DOMAIN a : a[i] \in Values \cup {0}
  /\ Len(mArray) = MedSize /\ Len(aArray) = AvgSize /\ Len(fValue) = 3
  /\ aIndex \in 1..AvgSize /\ ofValue \in Values \cup {0} /\ ofCount \in 0..Limit
  /\ count \in 0..Span /\ rising \in BOOLEAN

\* The buffer of the median filter stays sorted, and as long as the signal does not fall
\* its middle is the median of the last MedSize updates (median_filter.c 107-157).
MedianOfRising ==
  /\ InOrder(mArray)
  /\ rising => IsMedian(out.median, LastOf(MedSize))

\* A level that lasts for MedSize updates is what the median filter returns; a single value
\* that differs from it never is.
MedianTakesLevel ==
  /\ IsConstant(MedSize) => out.median = Last(recent)
  /\ MedSize > 2 /\ (\A i \in 1..MedSize : recent[Span - i] = recent[Span - 1])
       => out.median = recent[Span - 1]

\* The average is that of the last AvgSize updates, also after the index came round
\* (average_filter.c 119-138).
AverageOfLast == out.sum = Sum(LastOf(AvgSize))

\* A far value is taken only after Limit values were turned down in a row, and whatever
\* lasts longer than Limit updates is taken (outlier_filter.c 108-128).
OutliersAreFew ==
  [][Distance(ofValue, ofValue') > MDiff => ofCount = Limit \/ count' = 0]_vars
LevelIsTaken ==
  IsConstant(Limit + 1) => Distance(out.outlier, Last(recent)) <= MDiff

\* The FIR filter returns a constant signal as it is.
FirKeepsLevel == IsConstant(3) => out.fir = 2 * Scale * Last(recent)

\* median_filter.h 34: "designed to compute the median": what it returns is then between
\* the least and the greatest of as many updates as it holds.
MedianAmongUpdates ==
  count >= MedSize =>
    \E i, j \in 1..MedSize : LastOf(MedSize)[i] <= out.median /\ out.median <= LastOf(MedSize)[j]
================================================================================
