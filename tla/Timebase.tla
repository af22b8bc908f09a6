------------------------------- MODULE Timebase -------------------------------
(***************************************************************************)
(* A timebase "start,samples,stride" is read twice: by StartSampleStride   *)
(* of Timebase.cpp in mdsPutCh, which computes the labels of the data and  *)
(* the --dim of its command, and by _setStartStride() of mdsshell.c in the *)
(* server, which computes what is read from the channel's file.  The       *)
(* Makefile leaves out the code that sets a start and a stride in the      *)
(* driver, so the two must agree on their own.                             *)
(***************************************************************************)
EXTENDS Integers

CONSTANTS Pre, Post   \* samples captured before and after the trigger

ASSUME CaptureAssumption == Pre \in Nat /\ Post \in Nat

Colon == -1          \* ":"
Star == -2           \* "*", the same to mdsPutCh, but not always to the server
Defaults == {Colon, Star}
Length == Pre + Post
FullDim == 65536   \* --dim 0

\* The first n elements are there.  Numbers are not negative (mdsPutCh cuts them off
\* at 0, the server does not), and a stride is not 0, by which the server divides.
Definition == [n : 1..3, start : Defaults \cup Nat, samples : Defaults \cup Nat,
               stride : Defaults \cup (Nat \ {0})]
Default == [n |-> 3, start |-> Colon, samples |-> Colon, stride |-> 1]

Smaller(a, b) == IF a < b THEN a ELSE b
Larger(a, b) == IF a > b THEN a ELSE b

\* Division of C: towards zero.
Quotient(a, b) == IF a >= 0 THEN a \div b ELSE -((-a) \div b)

Given(def, i, x) == def.n >= i /\ x \notin Defaults

-----------------------------------------------------------------------------
(* In mdsPutCh. *)

Stride(def) == IF Given(def, 3, def.stride) THEN Larger(1, def.stride) ELSE 1

Samples(def) ==
  LET all == Length \div Stride(def)
  IN  IF Given(def, 2, def.samples) THEN Smaller(all, Larger(1, def.samples)) ELSE all

\* Mutant: the start is not made relative to the trigger.
FirstFromZero(def) ==
  Quotient(IF Given(def, 1, def.start) THEN Smaller(def.start, Length) ELSE 0, Stride(def))

\* The first sample, counted in strides from the trigger.
First(def) ==
  Quotient((IF Given(def, 1, def.start) THEN Smaller(def.start, Length) ELSE 0) - Pre,
           Stride(def))

Labels(def) == [s0 |-> First(def), s2 |-> First(def) + Samples(def)]

-----------------------------------------------------------------------------
(* In the server. *)

\* "%d,%c,%d" takes a single character between commas for the samples.
OneCharacter(def) == def.samples \in Defaults \/ def.samples < 10

ServerStart(def) == IF Given(def, 1, def.start) THEN def.start ELSE 0

ServerSamples(def) ==
  IF Given(def, 1, def.start) /\ Given(def, 2, def.samples)
       /\ ~(OneCharacter(def) /\ Given(def, 3, def.stride))
  THEN def.samples ELSE 0

\* A stride is taken after two colons, two stars, or a start; a definition that starts
\* with a colon and goes on with a star or with the samples is ignored as a whole.
StrideTaken(def) ==
  Given(def, 3, def.stride) => def.start \notin Defaults \/ def.samples = def.start

ServerStride(def) ==
  IF Given(def, 3, def.stride) /\ StrideTaken(def) THEN def.stride ELSE 1

\* Elements of the buffer: --dim, with 0 for the largest.
Dim(def) == IF Samples(def) = 0 THEN FullDim ELSE Samples(def)

\* Mutant: the samples asked for are read without a look at what the file holds.
ElementsUnchecked(def) == IF ServerSamples(def) = 0 THEN Dim(def) ELSE ServerSamples(def)

\* Elements read into it.  A strided read, done in the server, takes whole strides.
Elements(def) ==
  LET wanted == IF ServerSamples(def) = 0 THEN Dim(def) ELSE ServerSamples(def)
      left   == Larger(0, Length - ServerStart(def))
      stride == ServerStride(def)
  IN  Smaller(wanted * stride, left) \div stride
=============================================================================
