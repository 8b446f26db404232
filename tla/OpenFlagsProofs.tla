--------------------------- MODULE OpenFlagsProofs ---------------------------
(***************************************************************************)
(* Proofs about OpenFlags, for words of any bits and, in the lemma they    *)
(* rest on, for the flags of any operating system that gives every flag a  *)
(* bit of its own.                                                         *)
(***************************************************************************)
EXTENDS OpenFlags, TLAPS

\* A table in which every flag has a bit of its own: the word made of some
\* flags has exactly those flags.
LEMMA NamedWord ==
  ASSUME NEW sys, Separable(sys), NEW S \in SUBSET FlagNames
  PROVE  Named(sys, Word(sys, S)) = S
<1>1. ASSUME NEW f \in S
      PROVE  f \in Named(sys, Word(sys, S))
  BY DEF Named, Word
<1>2. ASSUME NEW f \in Named(sys, Word(sys, S))
      PROVE  f \in S
  <2>1. f \in FlagNames /\ sys[f] \subseteq Word(sys, S)
    BY <1>2 DEF Named
  <2>2. PICK b \in sys[f] : \A g \in FlagNames \ {f} : b \notin sys[g]
    BY <2>1 DEF Separable
  <2>3. PICK g \in S : b \in sys[g]
    BY <2>1, <2>2 DEF Word
  <2> QED
    BY <2>2, <2>3
<1> QED
  BY <1>1, <1>2

\* The three tables give every flag a bit of its own.
LEMMA TablesSeparable == Separable(SA) /\ Separable(Linux) /\ Separable(Darwin)
<1>1. Separable(SA)
  <2>1. \A f, g \in FlagNames : \A b \in SA[f] : b \in SA[g] => f = g
    BY DEF SA, FlagNames
  <2>2. \A f \in FlagNames : SA[f] # {}
    BY DEF SA, FlagNames
  <2> QED
    BY <2>1, <2>2, Zenon DEF Separable
<1>2. Separable(Linux)
  <2>1. \A f, g \in FlagNames : \A b \in Linux[f] : b \in Linux[g] => f = g
    BY DEF Linux, FlagNames
  <2>2. \A f \in FlagNames : Linux[f] # {}
    BY DEF Linux, FlagNames
  <2> QED
    BY <2>1, <2>2, Zenon DEF Separable
<1>3. Separable(Darwin)
  <2>1. \A f, g \in FlagNames : \A b \in Darwin[f] : b \in Darwin[g] => f = g
    BY DEF Darwin, FlagNames
  <2>2. \A f \in FlagNames : Darwin[f] # {}
    BY DEF Darwin, FlagNames
  <2> QED
    BY <2>1, <2>2, Zenon DEF Separable
<1> QED
  BY <1>1, <1>2, <1>3

\* SystemToSAFlags then SAFlagsToSystem, for any word x of any system src and any
\* target dst whose flags can be told apart: dst gets the flags x has, no other.
THEOREM RoundTrip ==
  ASSUME NEW src, NEW dst, NEW x, Separable(dst)
  PROVE  Named(dst, SAFlagsToSystem(dst, SystemToSAFlags(src, x))) = Named(src, x)
<1>1. Named(src, x) \in SUBSET FlagNames
  BY DEF Named
<1>2. Named(SA, SystemToSAFlags(src, x)) = Named(src, x)
  BY <1>1, NamedWord, TablesSeparable DEF SystemToSAFlags
<1> QED
  BY <1>1, <1>2, NamedWord DEF SAFlagsToSystem

\* What connects the phases of a request, needed because FlagsPreserved says nothing
\* of the word on the wire.
PhaseInv ==
  /\ phase \in {"called", "sent", "opened", "written"}
  /\ phase # "called" => wire = SystemToSAFlags(client, flags)
  /\ phase \in {"opened", "written"} => opened = SAFlagsToSystem(Linux, wire)

\* The satellite opens every file with the flags the application gave.
THEOREM FlagsArePreserved == FlagsSpec => []FlagsPreserved
<1>1. FlagsInit => PhaseInv
  BY DEF FlagsInit, PhaseInv
<1>2. PhaseInv /\ [FlagsNext]_flagVars => PhaseInv'
  BY DEF PhaseInv, FlagsNext, Send, OpenRemote, WriteRemote, flagVars
<1>3. PhaseInv => FlagsPreserved
  <2> SUFFICES ASSUME PhaseInv, phase \in {"opened", "written"}
               PROVE  /\ Named(Linux, opened) = Named(client, flags)
                      /\ opened \subseteq Word(Linux, FlagNames)
    BY DEF FlagsPreserved
  <2>1. opened = SAFlagsToSystem(Linux, SystemToSAFlags(client, flags))
    BY DEF PhaseInv
  <2>2. Named(Linux, opened) = Named(client, flags)
    BY <2>1, RoundTrip, TablesSeparable
  <2>3. opened \subseteq Word(Linux, FlagNames)
    BY <2>1 DEF SAFlagsToSystem, Word, Named
  <2> QED
    BY <2>2, <2>3
<1> QED
  BY <1>1, <1>2, <1>3, PTL DEF FlagsSpec
===============================================================================
