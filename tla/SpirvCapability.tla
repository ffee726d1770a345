------------------------- MODULE SpirvCapability --------------------------
(***************************************************************************)
(* stripStoragePushConstant8(): a shader module is a sequence of 32-bit    *)
(* words, a header and then instructions.  The first word of each has its  *)
(* opcode in the low half and its length in words in the high half.        *)
(***************************************************************************)
EXTENDS Integers, Sequences, FiniteSets

HeaderSize == 5
OpCapability == 17
StoragePushConstant8 == 4450

Op(word) == word % 65536
WordCount(word) == word \div 65536

---------------------------------------------------------------------------
(* The loop.                                                               *)

\* Mutant: the operand is not looked at.
StripsByOpcode(c, i) == Op(c[i]) = OpCapability /\ WordCount(c[i]) = 2

Strips(c, i) ==
  /\ Op(c[i]) = OpCapability
  /\ WordCount(c[i]) = 2
  /\ c[i + 1] = StoragePushConstant8

Malformed(c, i) == WordCount(c[i]) = 0 \/ i + WordCount(c[i]) > Len(c) + 1

\* What the iterations from word i on say and append to the stripped code.
Loop(c) ==
  LET from[i \in 1 .. Len(c) + 1] ==
        IF i > Len(c) THEN [failed |-> FALSE, removed |-> FALSE, words |-> <<>>]
        ELSE IF Malformed(c, i) THEN [failed |-> TRUE, removed |-> FALSE, words |-> <<>>]
        ELSE LET rest == from[i + WordCount(c[i])] IN
             IF Strips(c, i) THEN [rest EXCEPT !.removed = TRUE]
             ELSE [rest EXCEPT !.words = SubSeq(c, i, i + WordCount(c[i]) - 1) \o @]
  IN  from[HeaderSize + 1]

\* What CreateShaderModule is given: the code is swapped for the stripped one
\* only if something was removed.
Stripped(c) ==
  IF Len(c) < HeaderSize \/ Loop(c).failed \/ ~Loop(c).removed THEN c
  ELSE SubSeq(c, 1, HeaderSize) \o Loop(c).words

---------------------------------------------------------------------------
(* Reference definition, without a loop: the places where instructions     *)
(* start, as a set.                                                        *)

\* S holds the place of the first instruction and, with an instruction, the
\* place behind it.
Starts(c, S) ==
  /\ HeaderSize + 1 \in S
  /\ \A i \in S \ {Len(c) + 1} :
       WordCount(c[i]) # 0 /\ i + WordCount(c[i]) \in S

Places(c) == HeaderSize + 1 .. Len(c) + 1

\* The code falls into instructions from the header to its end.
WellFormed(c) ==
  Len(c) >= HeaderSize /\ \E S \in SUBSET Places(c) : Starts(c, S)

\* The words that belong to an instruction declaring the capability.
Unwanted(c) ==
  LET S == CHOOSE S \in SUBSET Places(c) :
             Starts(c, S) /\ \A T \in SUBSET Places(c) : Starts(c, T) => S \subseteq T
      gone == {i \in S \ {Len(c) + 1, Len(c)} :
                 /\ c[i] = OpCapability + 65536 * 2
                 /\ c[i + 1] = StoragePushConstant8}
  IN  gone \cup {i + 1 : i \in gone}

\* s is the words of c at the places kept: each stands behind those before it,
\* and there are no others.
Keeps(s, c, kept) ==
  /\ Len(s) = Cardinality(kept)
  /\ \A i \in kept : s[Cardinality({j \in kept : j <= i})] = c[i]

WithoutCapability(s, c) == Keeps(s, c, 1 .. Len(c) \ Unwanted(c))
===========================================================================
