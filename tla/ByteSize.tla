------------------------------ MODULE ByteSize ------------------------------
(* parseByteSize of forwardproxy/byte_size.go: the number of bytes that a    *)
(* traffic_quota such as "50GB" stands for, and the texts that are refused.  *)
(* Numbers are exact: a fraction is a count of 1/Frac, and int64 ends at     *)
(* MaxInt.  The float that ParseFloat rounds to is taken to be the number    *)
(* written, as every number of up to 53 significant bits is.                 *)
(*                                                                           *)
(* A float that fits no int64 converts to whatever the build's instruction   *)
(* gives: the parameter sat says whether it saturates (arm64) or gives the   *)
(* least int64 (amd64).                                                      *)
EXTENDS Integers

CONSTANTS
  MaxInt,      \* the largest int64
  Multiplier,  \* bytes of each unit
  Frac,        \* the finest fraction a text may give
  MaxFloat     \* the largest number ParseFloat returns, in fractions

Units == {"B", "KB", "MB", "GB", "TB"}
Bare  == "bare"                                      \* no unit

ASSUME SizeAssumption == /\ MaxInt \in Nat \ {0} /\ Frac \in Nat \ {0}
                         /\ Multiplier \in [Units -> 1 .. MaxInt] /\ MaxFloat \in Nat

\* What a text says once trimmed and upper-cased.  The number counts in a text
\* of kind "finite", its sign in one of kind "inf", nothing in a "nan".
Texts == [kind : {"finite", "inf", "nan"}, num : Int, unit : Units \cup {Bare}]

\* ParseInt: an integer without unit that fits an int64.
IsInt64(t) == /\ t.kind = "finite" /\ t.num % Frac = 0
              /\ t.num \div Frac <= MaxInt /\ -MaxInt - 1 <= t.num \div Frac

Negative(t)   == t.kind # "nan" /\ t.num < 0
AtLeastOne(t) == \/ t.kind = "finite" /\ t.num >= Frac
                 \/ t.kind = "inf" /\ t.num >= 0

\* ParseFloat: a number beyond the floats is an error; infinity is a number.
IsFloat(t) == t.kind = "finite" => t.num <= MaxFloat

\* val * multiplier, in 1/Frac bytes.
Product(t) == t.num * Multiplier[t.unit]

\* int64(val * float64(multiplier)) of a val that is not negative.
Converted(t, sat) ==
  IF t.kind = "finite" /\ Product(t) < (MaxInt + 1) * Frac THEN Product(t) \div Frac
  ELSE IF ~sat THEN -MaxInt - 1
  ELSE IF t.kind = "nan" THEN 0 ELSE MaxInt

\* Faulty: overflow is looked for in fractions only.
OverflowsBelowOne(t, sat) == ~AtLeastOne(t) /\ Converted(t, sat) < 0
Overflows(t, sat) == AtLeastOne(t) /\ Converted(t, sat) < Multiplier[t.unit]

Accepted(t, sat) ==
  /\ ~Negative(t)
  /\ \/ t.unit = Bare /\ IsInt64(t)
     \/ t.unit # Bare /\ IsFloat(t) /\ ~Overflows(t, sat)

Bytes(t, sat) == IF t.unit = Bare THEN t.num \div Frac ELSE Converted(t, sat)

-----------------------------------------------------------------------------
(* A size that is accepted is the number of whole bytes written, or the     *)
(* largest int64 when more was written, whatever the build: a quota never   *)
(* wraps to a smaller one or to none.  "NaN" is no size and no limit.       *)
Exact(t) == IF t.unit = Bare THEN t.num ELSE Product(t)        \* in 1/Frac bytes

Faithful(t, sat) ==
  LET b == Bytes(t, sat) IN
  Accepted(t, sat) =>
    \/ t.kind = "finite" /\ b * Frac <= Exact(t) /\ Exact(t) < (b + 1) * Frac
    \/ t.kind = "finite" /\ b = MaxInt /\ MaxInt * Frac < Exact(t)
    \/ t.kind = "inf" /\ b = MaxInt
    \/ t.kind = "nan" /\ b <= 0
=============================================================================
