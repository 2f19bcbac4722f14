----------------------------- MODULE JsonBytes -----------------------------
(***************************************************************************)
(* The numbers of engine/json.hpp as its binary formats see them.  An      *)
(* integer, of up to 64 bits, is a sign and a magnitude; the magnitude is  *)
(* a sequence of bytes, the most significant first, without leading zeros, *)
(* as the model checker's integers are too narrow.  A double is its eight  *)
(* bytes in that order (IEEE 754).                                         *)
(***************************************************************************)
EXTENDS Integers, Sequences
LOCAL INSTANCE SequencesExt
LOCAL INSTANCE FiniteSets
LOCAL INSTANCE FiniteSetsExt

Zeros(n) == [i \in 1..n |-> 0]
Ones8    == [i \in 1..8 |-> 255]

Stripped(bytes) ==
  LET digits == {i \in DOMAIN bytes : bytes[i] # 0}
  IN IF digits = {} THEN <<>> ELSE SubSeq(bytes, Min(digits), Len(bytes))

(* The lowest n bytes, of which there may be fewer.                        *)
lowest(bytes, n) == SubSeq(Zeros(n) \o bytes, Len(bytes) + 1, Len(bytes) + n)

complement(bytes) == [i \in DOMAIN bytes |-> 255 - bytes[i]]

(* One more, in so many bytes.                                             *)
successor(bytes) ==
  LET below == {i \in DOMAIN bytes : bytes[i] # 255}
  IN IF below = {} THEN Zeros(Len(bytes))
     ELSE [i \in DOMAIN bytes |->
             IF i < Max(below) THEN bytes[i] ELSE IF i = Max(below) THEN bytes[i] + 1 ELSE 0]

unsigned(bytes) == [negative |-> FALSE, magnitude |-> Stripped(bytes)]

(* Two's complement.                                                       *)
signed(bytes) ==
  IF bytes[1] < 128 THEN unsigned(bytes)
  ELSE [negative |-> TRUE, magnitude |-> Stripped(successor(complement(bytes)))]

(* What a cast to an integer of n bytes leaves of one.                     *)
cast(integer, n) ==
  LET bytes == lowest(integer.magnitude, n)
  IN IF integer.negative THEN successor(complement(bytes)) ELSE bytes

inUnsigned(integer, n) == unsigned(cast(integer, n)) = integer
inSigned(integer, n)   == signed(cast(integer, n)) = integer

natural(n) == unsigned(<<n \div 16777216, (n \div 65536) % 256, (n \div 256) % 256, n % 256>>)
integer(n) == [natural(IF n < 0 THEN -n ELSE n) EXCEPT !.negative = n < 0]

(* A length as a number one can count with: those above HUGE are more than *)
(* any text has, and as a std::size_t one with all its bits set is         *)
(* unknown_size().                                                         *)
HUGE    == 16777216
Unknown == -1
count(bytes) ==
  IF Len(Stripped(bytes)) > 3 THEN HUGE
  ELSE FoldLeft(LAMBDA n, b : 256 * n + b, 0, Stripped(bytes))
sizeOf(bytes) == IF bytes = Ones8 THEN Unknown ELSE count(bytes)

(* Magnitudes: m * k + c for a byte k; and the product modulo 2^64.        *)
scaled(m, k, c) ==
  LET step(sofar, b) == [carry  |-> (b * k + sofar.carry) \div 256,
                         digits |-> <<(b * k + sofar.carry) % 256>> \o sofar.digits]
      all == FoldLeft(step, [carry |-> c, digits |-> <<>>], Reverse(m))
  IN Stripped(<<all.carry>> \o all.digits)

sum(m, n) ==
  LET width == 9
      step(sofar, i) ==
        LET s == lowest(m, width)[i] + lowest(n, width)[i] + sofar.carry
        IN [carry |-> s \div 256, digits |-> <<s % 256>> \o sofar.digits]
  IN Stripped(FoldLeft(step, [carry |-> 0, digits |-> <<>>], [i \in 1..width |-> width + 1 - i]).digits)

product(m, n) ==
  Stripped(lowest(FoldLeft(LAMBDA sofar, b : lowest(sum(sofar \o <<0>>, scaled(m, b, 0)), 8), <<>>, n), 8))

-----------------------------------------------------------------------------
(* Floating point.                                                         *)

(* A double of a sign, an exponent and the first 23 bits of its fraction.  *)
double(sign, exponent, fraction) ==
  <<128 * sign + (exponent \div 16), 16 * (exponent % 16) + (fraction \div 524288),
    (fraction \div 2048) % 256, (fraction \div 8) % 256, 32 * (fraction % 8), 0, 0, 0>>

sign(d)     == d[1] \div 128
exponent(d) == 16 * (d[1] % 128) + (d[2] \div 16)
fraction(d) == 524288 * (d[2] % 16) + 2048 * d[3] + 8 * d[4] + (d[5] \div 32)
exact(d)    == d[5] % 32 = 0 /\ d[6] = 0 /\ d[7] = 0 /\ d[8] = 0

isnan(d)  == exponent(d) = 2047 /\ (fraction(d) # 0 \/ ~exact(d))
isinf(d)  == exponent(d) = 2047 /\ ~isnan(d)
isZero(d) == exponent(d) = 0 /\ fraction(d) = 0 /\ exact(d)

quiet_NaN == double(0, 2047, 4194304)

(* ldexp(mantissa, scale), for a mantissa of at most 24 bits.              *)
ldexp(s, mantissa, scale) ==
  LET top == Max({h \in 0..23 : 2 ^ h <= mantissa})
  IN IF mantissa = 0 THEN double(s, 0, 0)
     ELSE double(s, top + scale + 1023, (mantissa - 2 ^ top) * 2 ^ (23 - top))

negated(d) == [d EXCEPT ![1] = (@ + 128) % 256]

(* A float (four bytes) as a double.                                       *)
widened(f) ==
  LET e == 2 * (f[1] % 128) + (f[2] \div 128)
      m == 65536 * (f[2] % 128) + 256 * f[3] + f[4]
      s == f[1] \div 128
  IN CASE e = 255 /\ m = 0 -> double(s, 2047, 0)
       [] e = 255 /\ m # 0 -> double(s, 2047, IF m < 4194304 THEN m + 4194304 ELSE m)
       [] e = 0            -> ldexp(s, m, -149)
       [] OTHER            -> ldexp(s, m + 8388608, e - 150)

(* A double as a float, where it is one; the conversion would round others.*)
float(s, e, m) == <<128 * s + (e \div 2), 128 * (e % 2) + (m \div 65536), (m \div 256) % 256, m % 256>>

missing(d) == 897 - exponent(d)
isFloat(d) ==
  \/ isZero(d)
  \/ exact(d) /\ exponent(d) \in 897..1150
  \/ exact(d) /\ missing(d) \in 1..23 /\ (8388608 + fraction(d)) % 2 ^ missing(d) = 0
narrowed(d) ==
  CASE isZero(d)              -> float(sign(d), 0, 0)
    [] missing(d) \in 1..23   -> float(sign(d), 0, (8388608 + fraction(d)) \div 2 ^ missing(d))
    [] isinf(d)               -> float(sign(d), 255, 0)
    [] isnan(d)               -> float(sign(d), 255, 4194304 + (fraction(d) % 4194304))
    [] OTHER                  -> float(sign(d), exponent(d) - 896, fraction(d))

(* The keys of an object in the order of a map.                            *)
keyBefore(k, l) ==
  \/ IsStrictPrefix(k, l)
  \/ \E i \in DOMAIN k \cap DOMAIN l : SubSeq(k, 1, i - 1) = SubSeq(l, 1, i - 1) /\ k[i] < l[i]
keysOf(object) ==
  [i \in 1..Cardinality(DOMAIN object) |->
     CHOOSE k \in DOMAIN object : Cardinality({l \in DOMAIN object : keyBefore(l, k)}) = i - 1]

(* std::to_string.                                                        *)
decimalIndex(i) ==
  LET digits[k \in 0..i] == IF k < 10 THEN <<48 + k>> ELSE Append(digits[k \div 10], 48 + (k % 10))
  IN digits[i]
=============================================================================
