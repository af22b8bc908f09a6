---------------------------- MODULE MCChannelUpload ----------------------------
(* Instances of ChannelUpload for TLC: three sites with two, one and two       *)
(* channels, of which the third is not in the mask; captures of twelve samples. *)
EXTENDS ChannelUpload

ThreeSites == <<2, 1, 2>>

Definitions(n, start, samples, stride) ==
  [n : n, start : start, samples : samples, stride : stride]

\* All of a capture, parts of it, strides, elements left out, starts and strides
\* beyond the end, strides that the server drops.
Timebases ==
  UNION {Definitions({3}, {Colon, 0, 3, 5, 14}, {Colon, 4, 12, 20}, {Colon, 1, 2, 5, 13}),
         Definitions({3}, {Colon, Star}, {Star}, {Star, 5}),
         Definitions({1, 2}, {Colon, 5}, {Colon, 4, 20}, {Colon})}

Line(cs, tb, n) == [chans |-> cs, tb |-> tb, repeat |-> n]
At(start, stride) == [n |-> 3, start |-> start, samples |-> Colon, stride |-> stride]

\* Any timebase for two channels; lines that follow each other with and without
\* options, with and without turns; a line that only sets options.
UploadCommands ==
  {Line({2, 3, 5}, tb, Unset) : tb \in Timebases}
    \cup {Line(Channels, SameTimebase, n) : n \in {Unset, Forever, 0, 2}}
    \cup {Line({}, At(4, 2), Unset), Line({4}, At(0, 3), 1)}
=============================================================================
