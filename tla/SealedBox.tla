------------------------------ MODULE SealedBox ------------------------------
(***************************************************************************)
(* internal/cryptobox/box.go: a value is sealed under a master key and a   *)
(* context, and opens under the same two only.  Encryption is ideal here:  *)
(* a box shows nothing and cannot be forged.  What is translated is the    *)
(* framing that makes contexts different: a part is a sequence of symbols, *)
(* a length is a symbol like any other.                                    *)
(***************************************************************************)
EXTENDS Sequences, Naturals, SequencesExt

NoValue == "no value"

\* Mutant: the parts are joined without their lengths.
FramedByNothing(part) == part

Framed(part) == <<Len(part)>> \o part

\* The purpose is a part as the caller's are; the constant header before it is
\* left out.
Aad(purpose, context) ==
  FlattenSeq([i \in 1 .. Len(context) + 1 |->
                Framed(IF i = 1 THEN <<purpose>> ELSE context[i - 1])])

\* Two layers: a fresh key for the value, that key wrapped under the master's.
Seal(master, value, context) ==
  [value |-> value, aad |-> Aad("value", context),
   wrap  |-> [key |-> master, aad |-> Aad("dek", context)]]

Open(master, blob, context) ==
  IF blob.wrap = [key |-> master, aad |-> Aad("dek", context)] /\ blob.aad = Aad("value", context)
  THEN blob.value ELSE NoValue

\* Domain separation: what is sealed under one
\* master key and context opens under these and under no others, however the
\* bytes of two contexts run together.
OpensUnder(masters, value, contexts) ==
  \A m, n \in masters : \A c, d \in contexts :
    Open(n, Seal(m, value, c), d) = IF m = n /\ c = d THEN value ELSE NoValue
==============================================================================
