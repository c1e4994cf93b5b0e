-------------------------------- MODULE U29 --------------------------------
(***************************************************************************)
(* The integers of AMF3 (src/amf/amf3.rs): 29 bits in one to four bytes,   *)
(* seven bits in each of the first three and eight in the fourth.          *)
(***************************************************************************)
EXTENDS Integers, Sequences

U29Limit == 536870912       \* 2^29
IntMax == 268435455         \* AMF3_INT_MAX
IntMin == -268435456        \* AMF3_INT_MIN

(* The low seven bits with the high bit set.                               *)
More(value) == 128 + (value % 128)

(* write_u29 of a value below 2^29.                                        *)
WriteU29(value) ==
    IF value < 128 THEN << value >>
    ELSE IF value < 16384 THEN << More(value \div 128), value % 128 >>
    ELSE IF value < 2097152
         THEN << More(value \div 16384), More(value \div 128), value % 128 >>
    ELSE << More(value \div 4194304), More(value \div 32768), More(value \div 256), value % 256 >>

(* read_u29: the value and how many bytes it took.                         *)
ReadU29(bytes) ==
    IF bytes[1] < 128 THEN << bytes[1], 1 >>
    ELSE IF bytes[2] < 128 THEN << (bytes[1] % 128) * 128 + bytes[2], 2 >>
    ELSE IF bytes[3] < 128
         THEN << (bytes[1] % 128) * 16384 + (bytes[2] % 128) * 128 + bytes[3], 3 >>
    ELSE << (bytes[1] % 128) * 4194304 + (bytes[2] % 128) * 32768
            + (bytes[3] % 128) * 256 + bytes[4], 4 >>

(* An i32 as the low 29 bits of its two's complement, and back with the    *)
(* sign of bit 28.                                                         *)
Unsigned(i) == i % U29Limit

SignExtended(value) == IF value >= 268435456 THEN value - U29Limit ELSE value
=============================================================================
