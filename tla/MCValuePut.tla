------------------------------- MODULE MCValuePut -------------------------------
(* Instances of ValuePut for TLC: small sets of commands, four channels (the   *)
(* fourth is the one numbered MAXCHAN), files of six samples.                  *)
EXTENDS ValuePut

Channels == {1, 2}

\* A put without options: no timeout, whole files, default constants.
PlainPut(chans) ==
  [kind |-> "put", chans |-> chans, tb |-> FALSE, t |-> Unset, nsegs |-> 0,
   start |-> 0, len |-> 0, k0 |-> 0, k1 |-> 0, k2 |-> 0, nk |-> 3]
WithTimebase(r) == [r EXCEPT !.tb = TRUE]
Timed(r, t) == [r EXCEPT !.t = t]
Windowed(r, start, len) == [r EXCEPT !.start = start, !.len = len]
Split(r, n, k1) == [r EXCEPT !.nsegs = n, !.k0 = 10, !.k1 = k1, !.k2 = 1]

ConnectCommand == NoRequest
ValueCommand == [NoRequest EXCEPT !.kind = "value"]

\* Puts the README calls regular: each says whether it wants a timeout, one with
\* a timeout has one answer to wait for, and windows divide evenly into segments,
\* some of them beyond the files' end.
RegularRequests ==
  {ConnectCommand, ValueCommand, Timed(ValueCommand, 1), Timed(PlainPut({1}), 1)}
    \cup {Timed(r, 0) :
            r \in {PlainPut(Channels), Windowed(PlainPut({1, 3}), 2, 3)}
              \cup {Split(Windowed(PlainPut(Channels), s, n * m), n, 25) :
                      s \in {0, 1, 4}, n \in {2, 3}, m \in {1, 2}}}

\* Everything, with the mistakes: no channels, no window, a channel without a
\* file, channel MaxChan, more segments than samples.  A timebase is asked for whole
\* files, for windows that end inside the file, at its end and past it, for one that
\* starts past it, and for segments of which the last does.
UploadRequests ==
  LET window == Split(Windowed(PlainPut(Channels), 3, 4), 2, 25)
  IN  {ConnectCommand, ValueCommand, Timed(ValueCommand, 1),
       PlainPut({}), Timed(PlainPut({}), 1), PlainPut({1, MaxChan}), PlainPut({1, 3}),
       Split(PlainPut({1}), 2, 25), [window EXCEPT !.nk = 1],
       Split(Windowed(PlainPut({2}), 0, 1), 2, 25),
       window, WithTimebase(window), WithTimebase(Windowed(PlainPut({1}), 1, 2)),
       Timed(window, 1), Timed(WithTimebase(window), 0),
       WithTimebase(PlainPut(Channels)), WithTimebase(Windowed(PlainPut({2}), 5, 3)),
       WithTimebase(Windowed(PlainPut({2}), 8, 3)),
       WithTimebase(Split(Windowed(PlainPut(Channels), 2, 10), 2, 25))}
=============================================================================
