------------------------------ MODULE Checksum -------------------------------
(***************************************************************************)
(* The ones' complement checksum of a list of buffers, as TCP segments are *)
(* summed: the x86_64 version, which adds little-endian 64-bit words with  *)
(* an end-around carry, and the generic one every other board gets.  Each  *)
(* carries the odd last byte of a buffer over to the next buffer.          *)
(*                                                                         *)
(* Widths are scaled: a byte is a digit in base BASE, a uint16_t two of    *)
(* them, the uint64_t LANES of them, the generic uint32_t SUMBYTES.        *)
(***************************************************************************)
EXTENDS Naturals, Sequences, SequencesExt

CONSTANTS
  BASE,      \* 256
  LANES,     \* 8, the bytes of the x86_64 sum and of the words it adds
  SUMBYTES,  \* 4, the bytes of the generic sum
  MaxBytes   \* bound on the bytes of all the buffers together

ASSUME WidthAssumption ==
  /\ BASE \in Nat \ {0, 1} /\ LANES \in Nat \ {0, 1, 2} /\ SUMBYTES \in Nat \ {0, 1, 2}
  /\ LANES % 2 = 0 /\ MaxBytes \in Nat

H == BASE ^ 2            \* values of a uint16_t
W64 == BASE ^ LANES
W32 == BASE ^ SUMBYTES

Byte == 0 .. BASE - 1

VARIABLES
  impl,      \* which of the two versions was compiled
  input,     \* history: the whole list
  list,      \* v_cstruct_list, what is left of it
  sum,       \* sum64, or sum
  overflow,  \* the generic version's byte carried over, or the other's flag
  oddval,    \* the x86_64 version's overflow_val
  lost,      \* history: the generic version forgot a carried byte
  checksum   \* the result

csVars == <<impl, input, list, sum, overflow, oddval, lost, checksum>>

NoResult == H            \* no uint16_t

\* Every way to cut every byte string in three, the empty pieces included.
InitCut(bytes, a, b) ==
  input = <<SubSeq(bytes, 1, a), SubSeq(bytes, a + 1, b), SubSeq(bytes, b + 1, Len(bytes))>>

CsInit ==
  /\ impl \in {"x86_64", "generic"}
  /\ \E bytes \in BoundedSeq(Byte, MaxBytes) :
       \E b \in 0 .. Len(bytes) : \E a \in 0 .. b : InitCut(bytes, a, b)
  /\ list = input
  /\ sum = 0 /\ overflow = 0 /\ oddval = 0 /\ lost = FALSE
  /\ checksum = NoResult

-----------------------------------------------------------------------------
(* Arithmetic the two versions share.                                      *)

BigEndian(hi, lo) == hi * BASE + lo
LittleEndian(s) == FoldRight(LAMBDA byte, acc : byte + BASE * acc, s, 0)

Swap(v) == (v % BASE) * BASE + (v \div BASE)      \* local_htons, local_ntohs

\* A single round of the fold.
Fold16Once(s) == (s % H) + (s \div H)

\* while (sum >> 16) sum = (sum & 0xffff) + (sum >> 16)
Fold16(s) ==
  LET f[n \in 0 .. s] == IF n < H THEN n ELSE f[(n % H) + (n \div H)] IN f[s]

Complement(v) == (H - 1) - v                      \* ~ on a uint16_t

\* A sum64 += v that forgets the end-around carry.
AddNoCarry(s, v) == (s + v) % W64

\* sum64 += v; if (sum64 < v) sum64++
AddCarry(s, v) ==
  LET t == (s + v) % W64 IN IF t < v THEN t + 1 ELSE t

\* The words the x86_64 loops read of a buffer: whole lanes first, then pairs.
Words(s) ==
  LET lanes == Len(s) \div LANES
      pairs == (Len(s) % LANES) \div 2
  IN  [i \in 1 .. lanes + pairs |->
        IF i <= lanes
        THEN LittleEndian(SubSeq(s, (i - 1) * LANES + 1, i * LANES))
        ELSE LET j == lanes * LANES + 2 * (i - lanes)
             IN  LittleEndian(<<s[j - 1], s[j]>>)]

\* The big-endian pairs the generic loop reads.
Pairs(s) == [i \in 1 .. Len(s) \div 2 |-> BigEndian(s[2 * i - 1], s[2 * i])]

Odd(s) == Len(s) % 2 = 1

AddPairs(start, s) == FoldLeft(LAMBDA acc, v : (acc + v) % W32, start, Pairs(s))

-----------------------------------------------------------------------------
(* One buffer after another.                                               *)

SkipEmpty ==
  /\ list # <<>> /\ Head(list) = <<>>
  /\ list' = Tail(list)
  /\ UNCHANGED <<impl, input, sum, overflow, oddval, lost, checksum>>

\* A version that adds the carried byte without swapping the pair back.
AddX86Unswapped ==
  /\ impl = "x86_64" /\ list # <<>> /\ Head(list) # <<>>
  /\ LET buf == Head(list)
         start == IF overflow # 0 THEN AddCarry(sum, BigEndian(oddval, buf[1])) ELSE sum
         rest == IF overflow # 0 THEN Tail(buf) ELSE buf
     IN  /\ sum' = FoldLeft(AddCarry, start, Words(rest))
         /\ overflow' = IF Odd(rest) THEN 1 ELSE 0
         /\ oddval' = IF Odd(rest) THEN Last(rest) ELSE 0
  /\ list' = Tail(list)
  /\ UNCHANGED <<impl, input, lost, checksum>>

AddX86 ==
  /\ impl = "x86_64" /\ list # <<>> /\ Head(list) # <<>>
  /\ LET buf == Head(list)
         start == IF overflow # 0 THEN AddCarry(sum, Swap(BigEndian(oddval, buf[1]))) ELSE sum
         rest == IF overflow # 0 THEN Tail(buf) ELSE buf
     IN  /\ sum' = FoldLeft(AddCarry, start, Words(rest))
         /\ overflow' = IF Odd(rest) THEN 1 ELSE 0
         /\ oddval' = IF Odd(rest) THEN Last(rest) ELSE 0
  /\ list' = Tail(list)
  /\ UNCHANGED <<impl, input, lost, checksum>>

\* A version that keeps the carried byte after adding it.
AddGenericKept ==
  /\ impl = "generic" /\ list # <<>> /\ Head(list) # <<>>
  /\ LET buf == Head(list)
         start == IF overflow # 0 THEN (sum + BigEndian(overflow, buf[1])) % W32 ELSE sum
         rest == IF overflow # 0 THEN Tail(buf) ELSE buf
         body == AddPairs(start, rest)
     IN  /\ sum' = IF Odd(rest) /\ Len(list) = 1
                   THEN (body + BigEndian(Last(rest), 0)) % W32 ELSE body
         /\ overflow' = IF Odd(rest) /\ Len(list) > 1 THEN Last(rest) ELSE overflow
         /\ lost' = (lost \/ (Odd(rest) /\ Len(list) > 1 /\ Last(rest) = 0))
  /\ list' = Tail(list)
  /\ UNCHANGED <<impl, input, oddval, checksum>>

\* The byte carried over doubles as the flag that there is one: a zero byte is
\* not seen again, and the next buffer starts a pair of its own.
AddGeneric ==
  /\ impl = "generic" /\ list # <<>> /\ Head(list) # <<>>
  /\ LET buf == Head(list)
         start == IF overflow # 0 THEN (sum + BigEndian(overflow, buf[1])) % W32 ELSE sum
         rest == IF overflow # 0 THEN Tail(buf) ELSE buf
         body == AddPairs(start, rest)
     IN  /\ sum' = IF Odd(rest) /\ Len(list) = 1
                   THEN (body + BigEndian(Last(rest), 0)) % W32 ELSE body
         /\ overflow' = IF Odd(rest) /\ Len(list) > 1 THEN Last(rest) ELSE 0
         /\ lost' = (lost \/ (Odd(rest) /\ Len(list) > 1 /\ Last(rest) = 0))
  /\ list' = Tail(list)
  /\ UNCHANGED <<impl, input, oddval, checksum>>

FinishX86 ==
  /\ impl = "x86_64" /\ list = <<>> /\ checksum = NoResult
  /\ LET total == IF overflow # 0 THEN AddCarry(sum, Swap(BigEndian(oddval, 0))) ELSE sum
     IN  checksum' = Swap(Complement(Fold16(total)))
  /\ UNCHANGED <<impl, input, list, sum, overflow, oddval, lost>>

FinishGeneric ==
  /\ impl = "generic" /\ list = <<>> /\ checksum = NoResult
  /\ LET total == IF overflow # 0 THEN (sum + BigEndian(overflow, 0)) % W32 ELSE sum
     IN  checksum' = Complement(Fold16(total))
  /\ UNCHANGED <<impl, input, list, sum, overflow, oddval, lost>>

CsNext == SkipEmpty \/ AddX86 \/ AddGeneric \/ FinishX86 \/ FinishGeneric

CsSpec == CsInit /\ [][CsNext]_csVars

-----------------------------------------------------------------------------
(* The functions for one buffer.                                           *)

ChecksumX86(s) ==
  LET body == FoldLeft(AddCarry, 0, Words(s))
      total == IF Odd(s) THEN AddCarry(body, Swap(BigEndian(Last(s), 0))) ELSE body
  IN  Swap(Complement(Fold16(total)))

ChecksumGeneric(s) ==
  LET body == AddPairs(0, s)
      total == IF Odd(s) THEN (body + BigEndian(Last(s), 0)) % W32 ELSE body
  IN  Complement(Fold16(total))

-----------------------------------------------------------------------------
(* Properties.                                                             *)

\* RFC 1071: the 16-bit big-endian words of the whole byte string, a missing
\* last byte read as zero, added in ones' complement; the complement of that.
PlainSum(s) ==
  FoldLeft(LAMBDA acc, v : acc + v, 0, Pairs(IF Odd(s) THEN Append(s, 0) ELSE s))
Reference(s) == Complement(Fold16(PlainSum(s)))

\* Every variable keeps its type; the sums stay within their words and the
\* result within 16 bits.
CsTypeOK ==
  /\ impl \in {"x86_64", "generic"}
  /\ Len(input) = 3 /\ \A i \in 1 .. 3 : \A j \in 1 .. Len(input[i]) : input[i][j] \in Byte
  /\ IsSuffix(list, input)
  /\ sum \in 0 .. (IF impl = "x86_64" THEN W64 ELSE W32) - 1
  /\ overflow \in Byte /\ oddval \in Byte /\ lost \in BOOLEAN
  /\ checksum \in 0 .. H

All == FlattenSeq(input)
Done(n) == FlattenSeq(SubSeq(input, 1, n))       \* the bytes of the first n buffers

\* Between two buffers the sum so far, with the byte carried over, stands for
\* the bytes consumed so far, however they were cut and whatever word size they
\* were added in: it differs from their plain sum by a multiple of 0xffff.  The
\* x86_64 sum is of swapped words, which multiplies it by 256.
SumStandsForPrefix ==
  checksum = NoResult /\ ~lost =>
    LET plain == PlainSum(Done(Len(input) - Len(list)))
        carried == IF impl = "x86_64"
                   THEN sum + IF overflow # 0 THEN Swap(BigEndian(oddval, 0)) ELSE 0
                   ELSE sum + BigEndian(overflow, 0)
        scale == IF impl = "x86_64" THEN BASE ELSE 1
    IN  carried % (H - 1) = (scale * plain) % (H - 1)

\* The x86_64 checksum of a list is the reference's of the bytes it holds, and
\* so is the generic one as long as no carried byte was zero.
ListChecksum == checksum # NoResult /\ ~lost => checksum = Reference(All)

\* Both versions, of a single buffer, give the reference's checksum: what one
\* board sends the other accepts.
SingleChecksum == ChecksumX86(All) = Reference(All) /\ ChecksumGeneric(All) = Reference(All)

-----------------------------------------------------------------------------
(* What the program says of itself.                                        *)

\* "The odd byte must be carried forward as 16-byte 1s complement addition if
\* there are more buffers in the chain": the cuts between buffers do not
\* matter to the checksum.
CutsDoNotMatter == checksum # NoResult => checksum = Reference(All)
=============================================================================
