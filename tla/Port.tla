-------------------------------- MODULE Port --------------------------------
(***************************************************************************)
(* fwup as the child of another program that streams the archive into its  *)
(* stdin and reads its stdout, with or without --framing and               *)
(* --exit-handshake: the read callbacks of archive_open.c, the progress    *)
(* messages of progress.c, and the output and the exit of util.c, while    *)
(* fwup_apply works.                                                       *)
(*                                                                         *)
(* Both pipes are bounded; who writes into a full one or reads from an     *)
(* empty one waits.  The parent reads and writes independently, as an      *)
(* Erlang port does.  A unit of the input is a number smaller than Base; a *)
(* frame has two units of length, the higher one first, and a length of    *)
(* zero ends the input.  A message on stdout is one unit.                  *)
(***************************************************************************)
EXTENDS Integers, SequencesExt, FiniteSets

CONSTANTS
  Streams,        \* what the parent may want to send: sequences of units
  Base,           \* a unit is one of 0 .. Base - 1
  BufSize,        \* sizeof(ad->buffer), in units
  InCap, OutCap,  \* what the pipes hold
  Needs,          \* how much of the archive the task needs: a set of numbers of units
  Total,          \* total_units of the progress
  Low, High       \* --progress-low, --progress-high

HeaderLen == 2
ASSUME PortAssumption ==
  /\ {Base, BufSize, InCap, OutCap, Total} \subseteq Nat \ {0} /\ InCap >= BufSize + HeaderLen
  /\ Needs \subseteq Nat /\ Low \in Nat /\ High \in Nat /\ Low < High
  /\ Streams \subseteq Seq(0 .. Base - 1)

VARIABLES
  framing, handshake,     \* the options
  patient,                \* the parent waits for Ctrl-Z before it closes stdin
  stream, need,           \* what is sent and what of it is needed
  \* the parent
  unsent,                 \* units that are to be written
  closed,                 \* it has closed stdin
  broken,                 \* it wrote into a pipe without a reader
  seen,                   \* what it has read
  \* the pipes
  inp, out,
  \* fwup
  pc, ad,                 \* where it is; struct fwup_archive_data: [current_frame_remaining, is_eof]
  got,                    \* what libarchive was given
  status,                 \* "none", or how it ended: "ok", "error"
  progress                \* [units, last_reported_percent]
parent == <<unsent, closed, broken, seen>>
input == <<framing, handshake, patient, stream, need>>
vars == <<input, parent, inp, out, pc, ad, got, status, progress>>

Message(type, n) == [type |-> type, n |-> n]
Ctrl_Z == Message("ctrl-z", 0)
Results == {Message("OK", 0), Message("ER", 0)}

\* What the stream says, without reading it unit by unit.  Frames start at its
\* first unit and behind every frame that is not empty: the smallest set of
\* positions with these.
Length(i) == stream[i] * Base + stream[i + 1]
HasLength(i) == i + 1 <= Len(stream)
Behind(i) == i + HeaderLen + Length(i)
FrameAt(i, S) == i = 1 \/ \E s \in S : HasLength(s) /\ Length(s) > 0 /\ i = Behind(s)
Starts == {i \in DOMAIN stream : \A S \in SUBSET DOMAIN stream :
                                   (\A j \in DOMAIN stream : FrameAt(j, S) => j \in S) => i \in S}
Ends(starts) == {s \in starts : HasLength(s) /\ Length(s) = 0}
Data(starts, ends) == {i \in DOMAIN stream : (\A s \in starts : i \notin {s, s + 1}) /\ (\A e \in ends : i < e)}

\* The frames taken together, and whether one of them ends the stream.
UpTo(S, i) == {j \in S : j <= i}
Nth(S, k) == CHOOSE i \in S : Cardinality(UpTo(S, i)) = k
Payload == LET starts == Starts
               ends == Ends(starts)
               data == Data(starts, ends)
           IN  [units |-> [k \in 1 .. Cardinality(data) |-> stream[Nth(data, k)]], ended |-> ends # {}]

fwup_archive_open_filename == [current_frame_remaining |-> 0, is_eof |-> FALSE]
progress_init == [units |-> 0, last_reported_percent |-> Low]
Init ==
  /\ framing \in BOOLEAN /\ handshake \in BOOLEAN /\ stream \in Streams /\ need \in Needs
  /\ patient \in {FALSE, framing /\ handshake /\ Payload.ended}
  /\ unsent = stream /\ closed = FALSE /\ broken = FALSE /\ seen = <<>>
  /\ inp = <<>> /\ out = <<Message("PR", Low)>>     \* by progress_init
  /\ pc = "work" /\ ad = fwup_archive_open_filename /\ got = <<>>
  /\ status = "none" /\ progress = progress_init

----------------------------------------------------------------------------
(* The parent                                                              *)

ParentWrites ==
  /\ unsent # <<>> /\ ~closed
  /\ \/ /\ pc # "exited" /\ Len(inp) < InCap
        /\ inp' = Append(inp, Head(unsent)) /\ unsent' = Tail(unsent) /\ UNCHANGED broken
     \/ /\ pc = "exited" /\ broken' = TRUE /\ unsent' = <<>> /\ UNCHANGED inp
  /\ UNCHANGED <<input, closed, seen, out, pc, ad, got, status, progress>>
ParentReads ==
  /\ out # <<>> /\ seen' = Append(seen, Head(out)) /\ out' = Tail(out)
  /\ UNCHANGED <<input, unsent, closed, broken, inp, pc, ad, got, status, progress>>

\* The parent closes stdin after Ctrl-Z, or else when it has sent everything.
ParentCloses ==
  /\ ~closed /\ (Ctrl_Z \in ToSet(seen) \/ (unsent = <<>> /\ ~patient))
  /\ closed' = TRUE /\ unsent' = <<>>
  /\ UNCHANGED <<input, broken, seen, inp, out, pc, ad, got, status, progress>>

----------------------------------------------------------------------------
(* Output                                                                  *)

\* fwup_output: one packet, flushed.  Without framing it is the text alone, and
\* a success has none.
fwup_output(type, n) ==
  IF type = "OK" /\ ~framing THEN UNCHANGED out
  ELSE Len(out) < OutCap /\ out' = Append(out, Message(type, n))
output_progress(percent) ==
  IF percent <= progress.last_reported_percent THEN UNCHANGED out ELSE fwup_output("PR", percent)

\* progress_report: never 100 % before the very end.
Percent(units) == LET amt == (units * (High - Low)) \div Total
                  IN  Low + (IF amt >= High - Low THEN High - Low - 1 ELSE amt)
WorkOn ==
  /\ pc = "work" /\ progress.units < Total
  /\ LET p == Percent(progress.units + 1)
     IN  /\ output_progress(p)
         /\ progress' = [units |-> progress.units + 1, last_reported_percent |-> Max({p, progress.last_reported_percent})]
  /\ UNCHANGED <<input, parent, inp, pc, ad, got, status>>

----------------------------------------------------------------------------
(* Input                                                                   *)

Fail == status' = "error" /\ pc' = "result"
Smaller(a, b) == IF a < b THEN a ELSE b

\* libarchive wants more.
Read == /\ pc = "work" /\ Len(got) < need /\ ~ad.is_eof /\ pc' = "read"
        /\ UNCHANGED <<input, parent, inp, out, ad, got, status, progress>>

\* normal_read: what there is, or the end.
TryAgain == ad                          \* variant: the end is not noticed
AtEnd == [ad EXCEPT !.is_eof = TRUE]
normal_read ==
  /\ pc = "read" /\ ~framing
  /\ \/ /\ inp # <<>>
        /\ \E n \in 1 .. Smaller(BufSize, Len(inp)) :
             got' = got \o SubSeq(inp, 1, n) /\ inp' = SubSeq(inp, n + 1, Len(inp))
        /\ pc' = "work" /\ UNCHANGED ad
     \/ /\ inp = <<>> /\ closed /\ ad' = AtEnd /\ pc' = "work"
        /\ UNCHANGED <<got, inp>>
  /\ UNCHANGED <<input, parent, out, status, progress>>

\* framed_stdin_read.  fread waits until it has all it was asked for, or stdin
\* is closed.
Fread(n) == Len(inp) >= n \/ closed
ReadLength ==
  /\ pc = "read" /\ framing /\ ad.current_frame_remaining = 0 /\ Fread(HeaderLen)
  /\ IF Len(inp) < HeaderLen THEN Fail /\ UNCHANGED <<ad, inp>>
     ELSE LET len == inp[1] * Base + inp[2]
          IN  /\ inp' = SubSeq(inp, HeaderLen + 1, Len(inp))
              /\ ad' = [current_frame_remaining |-> len, is_eof |-> len = 0]
              /\ pc' = IF len = 0 THEN "work" ELSE "read"
              /\ UNCHANGED status
  /\ UNCHANGED <<input, parent, out, got, progress>>
WholeBuffer == BufSize                  \* variant: reads on behind the frame
AmountToRead == Smaller(ad.current_frame_remaining, BufSize)
ReadFrame ==
  /\ pc = "read" /\ framing /\ ad.current_frame_remaining > 0 /\ Fread(AmountToRead)
  /\ LET n == Smaller(AmountToRead, Len(inp))
     IN  IF n = 0 THEN Fail /\ UNCHANGED <<ad, inp, got>>
         ELSE /\ got' = got \o SubSeq(inp, 1, n) /\ inp' = SubSeq(inp, n + 1, Len(inp))
              /\ ad' = [ad EXCEPT !.current_frame_remaining = IF n < @ THEN @ - n ELSE 0] /\ pc' = "work"
              /\ UNCHANGED status
  /\ UNCHANGED <<input, parent, out, progress>>

----------------------------------------------------------------------------
(* The end                                                                 *)

\* Success if libarchive got what the task needs, an error if it did not or for
\* any other reason.  progress_report_complete comes before the result.
Succeed ==
  /\ pc = "work" /\ Len(got) >= need /\ progress.units = Total
  /\ output_progress(High) /\ progress' = [progress EXCEPT !.last_reported_percent = High]
  /\ status' = "ok" /\ pc' = "result"
  /\ UNCHANGED <<input, parent, inp, ad, got>>
GiveUp ==
  /\ pc = "work" /\ Fail
  /\ UNCHANGED <<input, parent, inp, out, ad, got, progress>>

\* fwup_output of main or of fwup_errx, then fwup_exit.
ResultMessage == Message(IF status = "ok" THEN "OK" ELSE "ER", 0)
Result ==
  /\ pc = "result" /\ fwup_output(ResultMessage.type, 0) /\ pc' = IF handshake THEN "handshake" ELSE "exited"
  /\ UNCHANGED <<input, parent, inp, ad, got, status, progress>>

\* handshake_exit: Ctrl-Z and the status, then everything that is still sent is
\* thrown away until stdin is closed.
SendCtrlZ ==
  /\ pc = "handshake" /\ fwup_output("ctrl-z", 0) /\ pc' = "drain"
  /\ UNCHANGED <<input, parent, inp, ad, got, status, progress>>
NothingThere == inp = <<>>              \* variant: does not wait for the end
EndOfInput == inp = <<>> /\ closed
Drain ==
  /\ pc = "drain"
  /\ IF EndOfInput THEN pc' = "exited" /\ UNCHANGED inp
     ELSE inp # <<>> /\ inp' = <<>> /\ UNCHANGED pc
  /\ UNCHANGED <<input, parent, out, ad, got, status, progress>>

Over == pc = "exited" /\ out = <<>> /\ unsent = <<>> /\ UNCHANGED vars
Fwup == WorkOn \/ Read \/ normal_read \/ ReadLength \/ ReadFrame \/ Succeed \/ GiveUp \/ Result \/ SendCtrlZ \/ Drain
Next == ParentWrites \/ ParentReads \/ ParentCloses \/ Fwup \/ Over

\* fwup goes on when it can, and so does the parent.
Spec == /\ Init /\ [][Next]_vars
        /\ WF_vars(Fwup) /\ WF_vars(ParentWrites) /\ WF_vars(ParentReads) /\ WF_vars(ParentCloses)

----------------------------------------------------------------------------
(* Properties                                                              *)

\* libarchive is given the payload of the frames, without the lengths, however
\* they are cut up, and all of it if it is told that the input ends.
FramedExact ==
  framing => /\ IsPrefix(got, Payload.units)
             /\ ad.is_eof => got = Payload.units

\* What the parent has read or can read, in order: percentages that grow, then
\* the result (without framing only an error is one), then Ctrl-Z; the highest
\* percentage announces a success.  With the handshake a parent that sends
\* until it sees Ctrl-Z never writes into a broken pipe, and one that waits for
\* it has read everything before fwup is gone.
Log == seen \o out
LogExact ==
  /\ \A i, j \in DOMAIN Log : i < j =>
       \/ Log[i].type = "PR" /\ (Log[j].type = "PR" => Log[i].n < Log[j].n)
       \/ Log[i] \in Results /\ Log[j] = Ctrl_Z
  /\ (\E i \in DOMAIN Log : Log[i] = Message("PR", High)) => status = "ok"
  /\ pc = "exited" /\ (framing \/ status = "error") => ResultMessage \in ToSet(Log)
  /\ handshake => ~broken /\ (pc = "exited" /\ patient => seen # <<>> /\ Last(seen) = Ctrl_Z /\ out = <<>>)

\* fwup exits, and its last words are read: neither side waits for ever, full
\* pipes and streams that break off included.
Exits == <>[](pc = "exited" /\ out = <<>>)
=============================================================================
