------------------------------- MODULE Bmp180 -------------------------------
(***************************************************************************)
(* lago_v1_5/src/bmp180.c: what the program makes of the bytes of the      *)
(* pressure sensor.  A register pair holds its high byte first; i2c reads  *)
(* a word low byte first.  The temperature is in tenths of a degree, the   *)
(* pressure in pascal.  Numbers are the code's 32-bit ones as long as no   *)
(* intermediate result leaves them, which holds for what a sensor          *)
(* delivers.                                                               *)
(***************************************************************************)
EXTENDS Integers, Sequences

\* bmp180_register_table: the coefficients of the eprom, and those that have a sign
bmp180_register_table == {"ac1", "ac2", "ac3", "ac4", "ac5", "ac6", "b1", "b2", "mb", "mc", "md"}
SignedRegisters == bmp180_register_table \ {"ac4", "ac5", "ac6"}

\* C's >> and / on signed numbers
Shr(a, n) == a \div 2^n
Quotient(a, b) == IF (a < 0) = (b < 0) THEN (IF a < 0 THEN -a ELSE a) \div (IF b < 0 THEN -b ELSE b)
                                       ELSE -((IF a < 0 THEN -a ELSE a) \div (IF b < 0 THEN -b ELSE b))

\* i2c_smbus_read_word_data() of two registers, masked with 0xFFFF
ReadWord(high, low) == high + 256 * low

\* ((data << 8) & 0xFF00) + (data >> 8)
SwapBytes(data) == (data % 256) * 256 + data \div 256

bmp180_read_eprom_reg(data, sign) ==
  LET store == SwapBytes(data) IN IF sign /\ store > 32767 THEN store - 65536 ELSE store

\* the coefficients as the eprom holds them, and as they are read
bmp180_read_eprom(eprom) ==
  [r \in bmp180_register_table |->
     bmp180_read_eprom_reg(ReadWord((eprom[r] % 65536) \div 256, eprom[r] % 256), r \in SignedRegisters)]

-----------------------------------------------------------------------------
(* A conversion: the time the program waits, the time it takes at most, in *)
(* microseconds, and the value of what is read.                            *)

WaitTemperature == 5000

\* mutant: one waiting time for all modes
MutWaitPressure(oss) == WaitTemperature

WaitPressure(oss) == CASE oss = 1 -> 8000 [] oss = 2 -> 14000 [] oss = 3 -> 26000 [] OTHER -> 5000

DurationTemperature == 4500
DurationPressure(oss) == CASE oss = 1 -> 7500 [] oss = 2 -> 13500 [] oss = 3 -> 25500 [] OTHER -> 4500

bmp180_read_raw_temperature(data) == SwapBytes(data)

bmp180_read_raw_pressure(msb, lsb, xlsb, oss) == Shr(msb * 65536 + lsb * 256 + xlsb, 8 - oss)

-----------------------------------------------------------------------------
(* The compensation                                                        *)

B5(bmp, UT) ==
  LET X1 == Shr((UT - bmp.ac6) * bmp.ac5, 15)
  IN  X1 + Quotient(bmp.mc * 2048, X1 + bmp.md)

bmp180_temperature(bmp, UT) == Shr(B5(bmp, UT) + 8, 4)

\* (B7 * 2) / B4 below 2^31 and (B7 / B4) * 2 from there on, B7 being n * k
Ratio(n, k, B4) ==
  LET half == (n \div 2) * k
      q == 2 * (half \div B4) + (2 * (half % B4) + (n % 2) * k) \div B4
      r == (2 * (half % B4) + (n % 2) * k) % B4
  IN  IF n < 2147483647 \div k + 1 THEN 2 * q + (2 * r) \div B4 ELSE 2 * q

bmp180_pressure(bmp, UT, UP, oss) ==
  LET B6 == B5(bmp, UT) - 4000
      X1 == Shr(Shr(bmp.b2 * (B6 * B6), 12), 11)
      B3 == Quotient((bmp.ac1 * 4 + X1 + Shr(bmp.ac2 * B6, 11)) * 2^oss + 2, 4)
      X3 == Shr(Shr(bmp.ac3 * B6, 13) + Shr(bmp.b1 * Shr(B6 * B6, 12), 16) + 2, 2)
      B4 == Shr(bmp.ac4 * (X3 + 32768), 15)
      p  == Ratio(UP - B3, 50000 \div 2^oss, B4)
  IN  p + Shr(Shr(Shr(p, 8) * Shr(p, 8) * 3038, 16) + Shr(-7357 * p, 16) + 3791, 4)

-----------------------------------------------------------------------------
\* the example of the sensor's data sheet: 15.0 degrees and 69964 Pa
Example == [ac1 |-> 408, ac2 |-> -72, ac3 |-> -14383, ac4 |-> 32741, ac5 |-> 32757, ac6 |-> 23153,
            b1 |-> 6190, b2 |-> 4, mb |-> -32768, mc |-> -8711, md |-> 2868]

ASSUME DataSheet ==
  /\ bmp180_temperature(Example, 27898) = 150
  /\ bmp180_pressure(Example, 27898, 23843, 0) = 69964
=============================================================================
