----------------------------- MODULE ChannelUpload -----------------------------
(***************************************************************************)
(* mdsPutCh: commands on standard input, or one in the arguments, each     *)
(* uploads a selection of channels through the server, one put per         *)
(* channel.  In the repeat mode an upload waits for SIGUSR2.  Channels are *)
(* numbered over the sites of the aggregator (InputBlockWrapper.cpp).      *)
(***************************************************************************)
EXTENDS Timebase, Sequences

CONSTANTS
  Blocks,     \* channels of each site
  Mask,       \* channels in the driver's mask
  Commands,   \* the command lines that may be given
  MaxLines,   \* bound: lines read
  MaxSignals  \* bound: signals sent

\* The last channel of the first i sites.
Upto[i \in 0..Len(Blocks)] == IF i = 0 THEN 0 ELSE Upto[i - 1] + Blocks[i]
Channels == 1..Upto[Len(Blocks)]

Forever == -1   \* REPEAT_FOREVER
Unset == -2     \* neither -r nor -R was given
SameTimebase == [n |-> 0, start |-> Colon, samples |-> Colon, stride |-> Colon]

\* Channels, -T, and -r or -R n.
Command == [chans : SUBSET Channels, tb : Definition \cup {SameTimebase},
            repeat : {Unset, Forever} \cup Nat]

ASSUME UploadAssumption ==
  /\ Blocks \in Seq(Nat \ {0}) /\ Blocks # <<>> /\ Mask \subseteq Channels
  /\ Commands \subseteq Command /\ Commands # {}
  /\ MaxLines \in Nat /\ MaxSignals \in Nat

VARIABLES
  pc,        \* command, repeat, pause, create, mask, channel, waiting, exited
  chans,     \* GL.channels
  timebase,  \* GL.timebase, kept from line to line
  mode,      \* repeat_mode, kept from line to line
  repeatn,   \* turns left, or Forever
  handler,   \* handleUsr2 is installed
  mask,      \* what channel_mask holds
  maskRead,  \* whether it was read, or is whatever was in memory
  cursor,    \* of the channel iterator
  asked,     \* the put that is with the server
  acks,      \* puts of this upload that were answered
  dt,        \* TimebaseImpl::dt_buf, in clock periods: the interval, 0 for none
  gone,      \* the server is gone
  status,    \* exit status: none, ok, err, killed
  strides,   \* history: the strides that were put with
  turns,     \* history: uploads begun since the last line
  limit,     \* history: n of that line
  lines, signals

vars == <<pc, chans, timebase, mode, repeatn, handler, mask, maskRead, cursor, asked,
          acks, dt, strides, gone, status, turns, limit, lines, signals>>
options == <<chans, timebase, mode, repeatn>>
selection == <<mask, maskRead, cursor>>
interval == <<dt, strides>>
puts == <<asked, acks, interval>>
history == <<turns, limit>>
bounds == <<lines, signals>>

\* A put: channel, file, labels, %DT, the timebase the server gets, and how it went.
Put == [ch : Nat, site : Nat, pchan : Nat, s0 : Int, s2 : Int, dt : Nat,
        tb : Definition, ok : BOOLEAN]

TypeOK ==
  /\ pc \in {"command", "repeat", "pause", "create", "mask", "channel", "waiting", "exited"}
  /\ chans \subseteq Channels /\ mask \subseteq Channels /\ maskRead \in BOOLEAN
  /\ timebase \in Definition
  /\ mode \in BOOLEAN /\ handler \in BOOLEAN /\ gone \in BOOLEAN
  /\ repeatn \in Nat \cup {Forever}
  /\ cursor \in 0..Upto[Len(Blocks)]
  /\ asked \in Put /\ acks \in Seq(Put)
  /\ dt \in Nat /\ strides \subseteq Nat /\ turns \in Nat /\ lines \in Nat /\ signals \in Nat
  /\ limit \in Nat \cup {Forever, Unset}
  /\ status \in {"none", "ok", "err", "killed"}

NoPut == [ch |-> 0, site |-> 0, pchan |-> 0, s0 |-> 0, s2 |-> 0, dt |-> 0,
          tb |-> Default, ok |-> FALSE]

Init ==
  /\ pc = "command" /\ chans = {} /\ timebase = Default
  /\ mode = FALSE /\ repeatn = Forever /\ handler = FALSE
  /\ mask = {} /\ maskRead = FALSE /\ cursor = 0
  /\ asked = NoPut /\ acks = <<>> /\ dt = 0 /\ strides = {}
  /\ gone = FALSE /\ status = "none" /\ turns = 0 /\ limit = Unset /\ lines = 0 /\ signals = 0

Exit(s) == pc' = "exited" /\ status' = s

-----------------------------------------------------------------------------
(* Where a channel is. *)

\* getMemberFromChannel(): the first site that reaches as far as the channel.
Member(c) == CHOOSE i \in 1..Len(Blocks) : c <= Upto[i] /\ \A j \in 1..(i - 1) : c > Upto[j]

\* Mutant: the channel's number in the whole system.
LogicalChannel(c) == c

\* The number on its own site.
PhysicalChannel(c) == c - Upto[Member(c) - 1]

-----------------------------------------------------------------------------
(* Commands and turns. *)

\* get_args() writes options into globals; a line without channels only does that.
ReadCommand(l) ==
  /\ pc = "command" /\ lines < MaxLines
  /\ lines' = lines + 1
  /\ timebase' = IF l.tb = SameTimebase THEN timebase ELSE l.tb
  /\ mode' = (mode \/ l.repeat # Unset)
  /\ repeatn' = IF l.repeat \in Nat THEN l.repeat ELSE repeatn
  /\ IF l.chans = {}
     THEN UNCHANGED <<pc, chans, handler, history, acks>>
     ELSE /\ chans' = l.chans /\ turns' = 0 /\ limit' = l.repeat /\ acks' = <<>>
          /\ pc' = IF mode' THEN "repeat" ELSE "create"
          /\ handler' = (handler \/ mode')
  /\ UNCHANGED <<selection, asked, interval, gone, status, signals>>

EndOfInput ==
  /\ pc = "command" /\ Exit("ok")
  /\ UNCHANGED <<options, handler, selection, puts, gone, history, bounds>>

\* Mutant: one turn too many.
TurnOneMore ==
  /\ pc = "repeat"
  /\ pc' = IF repeatn = Forever \/ repeatn >= 0 THEN "pause" ELSE "command"
  /\ repeatn' = IF repeatn = Forever THEN Forever ELSE repeatn - 1
  /\ UNCHANGED <<chans, timebase, mode, handler, selection, puts, gone, status,
                 history, bounds>>

\* Mutant: the count goes on below -1.
TurnCountingForever ==
  /\ pc = "repeat"
  /\ pc' = IF repeatn = Forever \/ repeatn > 0 THEN "pause" ELSE "command"
  /\ repeatn' = repeatn - 1
  /\ UNCHANGED <<chans, timebase, mode, handler, selection, puts, gone, status,
                 history, bounds>>

\* while ((repeatn == REPEAT_FOREVER || repeatn-- > 0) && pause()): the last test
\* leaves -1 behind, which is Forever.
Turn ==
  /\ pc = "repeat"
  /\ pc' = IF repeatn = Forever \/ repeatn > 0 THEN "pause" ELSE "command"
  /\ repeatn' = IF repeatn = Forever THEN Forever ELSE repeatn - 1
  /\ UNCHANGED <<chans, timebase, mode, handler, selection, puts, gone, status,
                 history, bounds>>

-----------------------------------------------------------------------------
(* An upload. *)

\* Timebase::create() asks for the capture and the clock, twice.
CreateTimebase ==
  /\ pc = "create" /\ pc' = "mask"
  /\ turns' = turns + 1 /\ acks' = <<>> /\ cursor' = 0
  /\ UNCHANGED <<options, handler, mask, maskRead, asked, interval, gone, status, limit,
                 bounds>>

ReadMask ==
  /\ pc = "mask" /\ pc' = "channel"
  /\ mask' = Mask /\ maskRead' = TRUE
  /\ UNCHANGED <<options, handler, cursor, puts, gone, status, history, bounds>>

\* Mutant: the mask is not asked.
UnmaskedUpcoming(c) == c \in chans /\ c > cursor /\ \A d \in chans : d > cursor => c <= d

\* The channel the iterator comes to that is in the mask.
Upcoming(c) ==
  /\ c \in chans \cap mask /\ c > cursor
  /\ \A d \in chans \cap mask : d > cursor => c <= d

\* Mutant: the string has the clock's period only.
PeriodOnly == IF dt = 0 THEN 1 ELSE dt

\* %DT: the string is made for the first put in the life of the process, and never
\* again.
Interval == IF dt = 0 THEN Stride(timebase) ELSE dt

\* The expression has labels and %DT in it.  write() to a server that has gone is
\* fatal.
PutChannel ==
  /\ pc = "channel"
  /\ \E c \in chans \cap Channels :
       /\ Upcoming(c)
       /\ cursor' = c
       /\ dt' = Interval /\ strides' = strides \cup {Stride(timebase)}
       /\ asked' = [ch |-> c, site |-> Member(c), pchan |-> PhysicalChannel(c),
                    s0 |-> Labels(timebase).s0, s2 |-> Labels(timebase).s2,
                    dt |-> Interval, tb |-> timebase, ok |-> FALSE]
  /\ IF gone THEN Exit("killed") ELSE pc' = "waiting" /\ UNCHANGED status
  /\ UNCHANGED <<options, handler, mask, maskRead, acks, gone, history, bounds>>

\* Mutant: errors are counted, and forgotten with the transaction.
AnswerIgnoringErrors ==
  /\ pc = "waiting" /\ ~gone
  /\ \E ok \in BOOLEAN : /\ ok => Elements(asked.tb) > 0
                         /\ acks' = Append(acks, [asked EXCEPT !.ok = ok])
  /\ pc' = "channel"
  /\ UNCHANGED <<options, handler, selection, asked, interval, gone, status, history,
                 bounds>>

\* Mutant: the reply to a put that fails has no line with EOF.
AnswerWithoutEnd ==
  /\ pc = "waiting" /\ ~gone
  /\ \E ok \in BOOLEAN :
       /\ ok => Elements(asked.tb) > 0
       /\ acks' = IF ok THEN Append(acks, [asked EXCEPT !.ok = ok]) ELSE acks
       /\ pc' = IF ok THEN "channel" ELSE pc
  /\ UNCHANGED <<options, handler, selection, asked, interval, gone, status, history,
                 bounds>>

\* The whole reply, up to the line with EOF.  The put of an empty file fails, any
\* other may; a line with ERROR or FAIL ends the program.
Answer ==
  /\ pc = "waiting" /\ ~gone
  /\ \E ok \in BOOLEAN :
       /\ ok => Elements(asked.tb) > 0
       /\ acks' = Append(acks, [asked EXCEPT !.ok = ok])
       /\ IF ok THEN pc' = "channel" /\ UNCHANGED status ELSE Exit("err")
  /\ UNCHANGED <<options, handler, selection, asked, interval, gone, history, bounds>>

\* The iterator is at its end.
FinishUpload ==
  /\ pc = "channel" /\ ~\E c \in Channels : Upcoming(c)
  /\ pc' = IF mode THEN "repeat" ELSE "command"
  /\ UNCHANGED <<options, handler, selection, puts, gone, status, history, bounds>>

-----------------------------------------------------------------------------
(* Signals, and the server. *)

\* SIGUSR2, at a point where it does nothing but wake pause(): recv() is called
\* again after EINTR.
Trigger ==
  /\ handler /\ signals < MaxSignals /\ signals' = signals + 1
  /\ pc \in {"repeat", "pause", "create", "mask", "channel", "waiting"}
  /\ pc' = IF pc = "pause" THEN "create" ELSE pc
  /\ UNCHANGED <<options, handler, selection, puts, gone, status, history, lines>>

\* Before the handler is there it is fatal.  With it, but without SA_RESTART, it ends
\* a read of the next line, which looks like the end of the input, and a read from
\* acqcmd, which looks like a failure of it.
TriggerEnds ==
  /\ signals < MaxSignals /\ signals' = signals + 1
  /\ \/ ~handler /\ pc # "exited" /\ Exit("killed")
     \/ handler /\ pc = "command" /\ Exit("ok")
     \/ handler /\ pc = "create" /\ Exit("err")
  /\ UNCHANGED <<options, handler, selection, puts, gone, history, lines>>

\* It ends the read of the mask: ChannelMask leaves its pointer and length
\* uninitialized.
TriggerSpoilsMask ==
  /\ handler /\ signals < MaxSignals /\ signals' = signals + 1
  /\ pc = "mask"
  /\ \/ /\ pc' = "channel" /\ mask' \in SUBSET Channels /\ maskRead' = FALSE
        /\ UNCHANGED status
     \/ Exit("killed") /\ UNCHANGED <<mask, maskRead>>
  /\ UNCHANGED <<options, handler, cursor, puts, gone, history, lines>>

\* Without SIGPIPE or a reset, a program waiting for its reply goes on waiting:
\* get() does not look for the end of the file.
ServerGoes ==
  /\ ~gone /\ gone' = TRUE
  /\ \/ UNCHANGED <<pc, status>>
     \/ pc = "waiting" /\ Exit("err")
  /\ UNCHANGED <<options, handler, selection, puts, history, bounds>>

\* It has ended, or waits: for ever, or until somebody sends a signal.
Stopped ==
  /\ pc \in {"exited", "pause"} \/ (pc = "waiting" /\ gone)
  /\ UNCHANGED vars

Work == Turn \/ CreateTimebase \/ ReadMask \/ PutChannel \/ FinishUpload
Read == EndOfInput \/ \E l \in Commands : ReadCommand(l)

Next == Read \/ Work \/ Answer \/ Trigger \/ TriggerEnds \/ TriggerSpoilsMask \/ ServerGoes
          \/ Stopped

Spec == Init /\ [][Next]_vars

\* The program runs, and a server that is there answers.
FairSpec == Spec /\ WF_vars(Work) /\ WF_vars(Answer)

-----------------------------------------------------------------------------
(* Properties. *)

InUpload == pc \in {"create", "mask", "channel", "waiting"}
Plan == chans \cap Mask
Answered(n) == {acks[j].ch : j \in 1..n}   \* by the first n puts

\* An upload puts the selected channels that are in the mask, in ascending order,
\* each once; what it leaves out is not there, and it stops at the first failure.
ChannelsInOrder ==
  maskRead =>
    \A j \in DOMAIN acks :
      /\ acks[j].ch \in Plan /\ Answered(j - 1) = {c \in Plan : c < acks[j].ch}
      /\ ~acks[j].ok => j = Len(acks) /\ status = "err"

\* When the program is ready for another upload, or has ended well, the last one
\* is complete.
OkMeansUploaded ==
  (pc \in {"command", "repeat", "pause"} \/ status = "ok") /\ turns > 0 /\ maskRead
    => Answered(Len(acks)) = Plan /\ \A j \in DOMAIN acks : acks[j].ok

\* The file put for a channel is the channel's: numbering the files of all sites
\* one after the other gives the channel back.
FilesAreChannels ==
  \A j \in DOMAIN acks :
    /\ acks[j].pchan \in 1..Blocks[acks[j].site]
    /\ acks[j].pchan + Upto[acks[j].site - 1] = acks[j].ch

OneStride == \A a, b \in strides : a = b   \* all puts of the process had the same

\* In a process that has put with one stride only, an element is labelled with its
\* time, to less than a stride, where the server takes the stride at all.  The label is
\* what the expression computes from what is written, the first sample's number and
\* %DT; the file's sample x was taken x - Pre periods after the trigger.
LabelsTrue ==
  OneStride =>
    \A j \in DOMAIN acks :
      LET p == acks[j]
          label(k) == (p.s0 + k) * p.dt
          taken(k) == ServerStart(p.tb) + k * ServerStride(p.tb) - Pre
      IN  p.ok /\ StrideTaken(p.tb) =>
            \A k \in 0..(Elements(p.tb) - 1) :
              label(k) - taken(k) \in (1 - p.dt)..(p.dt - 1)

\* The server reads no more elements than it has allocated for the --dim that
\* mdsPutCh computed.
BufferHolds == \A j \in DOMAIN acks : Elements(acks[j].tb) <= Dim(acks[j].tb)

\* A command that asks for n turns gets no more, whatever signals arrive.
TurnsBounded == limit \in Nat => turns <= limit

\* An upload that has begun ends, unless the server goes.
UploadEnds == InUpload ~> (~InUpload \/ gone)
=============================================================================
