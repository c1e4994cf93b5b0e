----------------------------- MODULE U29Proofs -----------------------------
(***************************************************************************)
(* Every integer of AMF3 survives the wire.                                *)
(***************************************************************************)
EXTENDS U29, TLAPS

(* A number is its low seven bits and the rest.                            *)
LEMMA Digits7 == \A n \in Int : n = (n % 128) + 128 * (n \div 128)
BY SMT

(* The bit that says more follows leaves the low seven bits alone.         *)
LEMMA Continues == \A n \in Nat : More(n) >= 128 /\ More(n) % 128 = n % 128
BY SMT DEF More

(* A number of two bytes is what its seven-bit digits say.                 *)
LEMMA TwoBytes ==
    ASSUME NEW a \in Nat, NEW b \in Nat, a >= 128, b < 128
    PROVE  ReadU29(<< a, b >>) = << (a % 128) * 128 + b, 2 >>
BY SMT DEF ReadU29

(* A number of three bytes likewise.                                       *)
LEMMA ThreeBytes ==
    ASSUME NEW a \in Nat, NEW b \in Nat, NEW c \in Nat, a >= 128, b >= 128, c < 128
    PROVE  ReadU29(<< a, b, c >>) = << (a % 128) * 16384 + (b % 128) * 128 + c, 3 >>
BY SMT DEF ReadU29

(* A number of four bytes likewise, the last of which holds eight bits.    *)
LEMMA FourBytes ==
    ASSUME NEW a \in Nat, NEW b \in Nat, NEW c \in Nat, NEW d \in Nat,
           a >= 128, b >= 128, c >= 128
    PROVE  ReadU29(<< a, b, c, d >>)
           = << (a % 128) * 4194304 + (b % 128) * 32768 + (c % 128) * 256 + d, 4 >>
BY SMT DEF ReadU29

(* read_u29 gives back what write_u29 wrote and takes as many bytes, at    *)
(* every length and on both sides of each of its limits.                   *)
THEOREM U29RoundTrip ==
    ASSUME NEW n \in Nat, n < U29Limit
    PROVE  ReadU29(WriteU29(n)) = << n, Len(WriteU29(n)) >>
<1>1. CASE n < 128
  BY SMT, <1>1 DEF WriteU29, ReadU29
<1>2. CASE n >= 128 /\ n < 16384
  <2> DEFINE high == n \div 128
  <2>1. high \in Nat /\ high < 128 /\ n % 128 < 128 /\ n = (n % 128) + 128 * high
    BY SMT, <1>2, Digits7
  <2>2. WriteU29(n) = << More(high), n % 128 >>
    BY SMT, <1>2 DEF WriteU29
  <2>3. More(high) >= 128 /\ More(high) % 128 = high
    BY SMT, <2>1, Continues
  <2>4. More(high) \in Nat /\ n % 128 \in Nat
    BY SMT, <2>1 DEF More
  <2>5. ReadU29(<< More(high), n % 128 >>) = << (More(high) % 128) * 128 + (n % 128), 2 >>
    <3> HIDE DEF high
    <3> QED BY SMT, <2>1, <2>3, <2>4, TwoBytes
  <2>6. ReadU29(WriteU29(n)) = << n, 2 >>
    BY SMT, <2>1, <2>2, <2>3, <2>5
  <2>7. Len(WriteU29(n)) = 2
    BY SMT, <2>2
  <2> QED BY SMT, <2>6, <2>7
<1>3. CASE n >= 16384 /\ n < 2097152
  <2> DEFINE mid == n \div 128
             high == n \div 16384
  <2>1. /\ mid \in Nat /\ high \in Nat /\ high < 128
        /\ n % 128 < 128 /\ n = (n % 128) + 128 * mid
        /\ mid = (mid % 128) + 128 * high
    BY SMT, <1>3
  <2>2. WriteU29(n) = << More(high), More(mid), n % 128 >>
    BY SMT, <1>3 DEF WriteU29
  <2>3. /\ More(high) >= 128 /\ More(high) % 128 = high
        /\ More(mid) >= 128 /\ More(mid) % 128 = mid % 128
    BY SMT, <2>1, Continues
  <2>4. /\ More(high) \in Nat /\ More(mid) \in Nat /\ n % 128 \in Nat
        /\ n = high * 16384 + (mid % 128) * 128 + (n % 128)
    BY SMT, <2>1 DEF More
  <2>5. ReadU29(<< More(high), More(mid), n % 128 >>)
        = << (More(high) % 128) * 16384 + (More(mid) % 128) * 128 + (n % 128), 3 >>
    <3> HIDE DEF high, mid
    <3> QED BY SMT, <2>1, <2>3, <2>4, ThreeBytes
  <2>6. ReadU29(WriteU29(n)) = << n, 3 >>
    BY SMT, <2>2, <2>3, <2>4, <2>5
  <2>7. Len(WriteU29(n)) = 3
    BY SMT, <2>2
  <2> QED BY SMT, <2>6, <2>7
<1>4. CASE n >= 2097152
  <2> DEFINE low == n \div 256
             mid == n \div 32768
             high == n \div 4194304
  <2>1. /\ low \in Nat /\ mid \in Nat /\ high \in Nat /\ high < 128
        /\ n = (n % 256) + 256 * low
        /\ low = (low % 128) + 128 * mid
        /\ mid = (mid % 128) + 128 * high
    BY SMT, <1>4 DEF U29Limit
  <2>2. WriteU29(n) = << More(high), More(mid), More(low), n % 256 >>
    BY SMT, <1>4 DEF WriteU29
  <2>3. /\ More(high) >= 128 /\ More(high) % 128 = high
        /\ More(mid) >= 128 /\ More(mid) % 128 = mid % 128
        /\ More(low) >= 128 /\ More(low) % 128 = low % 128
    BY SMT, <2>1, Continues
  <2>4. /\ n % 256 \in Nat
        /\ More(high) \in Nat /\ More(mid) \in Nat /\ More(low) \in Nat
    BY SMT, <2>1 DEF More
  <2>5. n = high * 4194304 + (mid % 128) * 32768 + (low % 128) * 256 + (n % 256)
    BY SMT, <2>1
  <2>6. ReadU29(WriteU29(n)) = << n, 4 >>
    <3>1. ReadU29(<< More(high), More(mid), More(low), n % 256 >>)
          = << (More(high) % 128) * 4194304 + (More(mid) % 128) * 32768
               + (More(low) % 128) * 256 + (n % 256), 4 >>
      <4> HIDE DEF high, mid, low
      <4> QED BY SMT, <2>3, <2>4, FourBytes
    <3> QED BY SMT, <2>2, <2>3, <2>5, <3>1
  <2>7. Len(WriteU29(n)) = 4
    BY SMT, <2>2
  <2> QED BY SMT, <2>6, <2>7
<1> QED BY SMT, <1>1, <1>2, <1>3, <1>4

(* The integers the encoder writes as integers come back with their sign.  *)
THEOREM SignRoundTrip ==
    ASSUME NEW i \in Int, IntMin <= i, i <= IntMax
    PROVE  Unsigned(i) \in Nat /\ Unsigned(i) < U29Limit /\ SignExtended(Unsigned(i)) = i
BY SMT DEF IntMin, IntMax, Unsigned, SignExtended, U29Limit
=============================================================================
