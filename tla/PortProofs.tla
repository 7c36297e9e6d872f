----------------------------- MODULE PortProofs -----------------------------
(***************************************************************************)
(* Proofs about what fwup tells the program that started it: the order of  *)
(* its messages, and what the parent can rely on when fwup is gone.        *)
(***************************************************************************)
EXTENDS Port, FiniteSetTheorems, SequenceTheorems, TLAPS

----------------------------------------------------------------------------
(* The inductive invariant, in parts                                       *)

Packet == [type : {"PR"}, n : Nat] \cup Results \cup {Ctrl_Z}
PortTypes ==
  /\ seen \in Seq(Packet) /\ out \in Seq(Packet)
  /\ progress \in [units : Nat, last_reported_percent : Nat]
  /\ pc \in {"work", "read", "result", "handshake", "drain", "exited"}
  /\ status \in {"none", "ok", "error"}
  /\ framing \in BOOLEAN /\ handshake \in BOOLEAN /\ patient \in BOOLEAN
  /\ closed \in BOOLEAN /\ broken \in BOOLEAN

\* What may follow what, as in LogExact.
LogOrder ==
  \A i, j \in DOMAIN Log : i < j =>
    \/ Log[i].type = "PR" /\ (Log[j].type = "PR" => Log[i].n < Log[j].n)
    \/ Log[i] \in Results /\ Log[j] = Ctrl_Z

\* Percentages are reported once, the highest one only with a success.
Percentages ==
  /\ \A i \in DOMAIN Log : Log[i].type = "PR" => Log[i].n <= progress.last_reported_percent
  /\ (\E i \in DOMAIN Log : Log[i] = Message("PR", High)) => status = "ok"
  /\ pc \in {"work", "read"} => status = "none" /\ progress.last_reported_percent < High

\* What has been said wherever fwup is.
SaidSoFar ==
  /\ pc \in {"work", "read", "result"} => \A i \in DOMAIN Log : Log[i].type = "PR"
  /\ pc = "handshake" => \A i \in DOMAIN Log : Log[i] # Ctrl_Z
  /\ pc \in {"result", "handshake", "drain", "exited"} => status # "none"
  /\ pc \in {"handshake", "drain", "exited"} /\ (framing \/ status = "error") =>
       ResultMessage \in ToSet(Log)

\* fwup says Ctrl-Z and goes only after stdin was closed; a parent that waits
\* for Ctrl-Z closes it only then.
Parting ==
  /\ pc \in {"handshake", "drain"} => handshake
  /\ handshake /\ pc = "exited" => closed
  /\ handshake => ~broken
  /\ patient => handshake
  /\ patient /\ closed => Ctrl_Z \in ToSet(seen)

PInv == PortTypes /\ LogOrder /\ Percentages /\ SaidSoFar /\ Parting

----------------------------------------------------------------------------
(* The log                                                                 *)

\* The kinds of packets are told apart.
LEMMA Packets ==
  /\ \A m \in Packet : m.type = "PR" \/ m \in Results \/ m = Ctrl_Z
  /\ \A m \in Packet : m.type = "PR" => m.n \in Nat
  /\ \A m \in Results \cup {Ctrl_Z} : m \in Packet /\ m.type # "PR"
  /\ Ctrl_Z \notin Results
  /\ \A n \in Nat : Message("PR", n) \in Packet /\ Message("PR", n).type = "PR" /\ Message("PR", n).n = n
BY DEF Packet, Results, Ctrl_Z, Message

\* Reading a message leaves the log alone.
LEMMA LogRead ==
  ASSUME NEW S, NEW a \in Seq(S), NEW b \in Seq(S), b # <<>>
  PROVE  Append(a, Head(b)) \o Tail(b) = a \o b
BY HeadTailProperties, ConcatProperties, AppendProperties

\* Saying something appends to it.
LEMMA LogSaid ==
  ASSUME NEW S, NEW a \in Seq(S), NEW b \in Seq(S), NEW m \in S
  PROVE  a \o Append(b, m) = Append(a \o b, m)
BY ConcatProperties, AppendProperties

\* The log as a sequence.
LEMMA LogTyped ==
  ASSUME PortTypes
  PROVE  /\ Log \in Seq(Packet) /\ DOMAIN Log = 1 .. Len(Log) /\ Len(Log) \in Nat
         /\ \A i \in DOMAIN Log : Log[i] \in Packet
BY ConcatProperties, LenProperties, ElementOfSeq DEF PortTypes, Log

\* What an appended message changes.
LEMMA Appended ==
  ASSUME PortTypes, NEW m \in Packet, Log' = Append(Log, m)
  PROVE  /\ Log' \in Seq(Packet) /\ Len(Log)' = Len(Log) + 1 /\ DOMAIN Log' = 1 .. Len(Log) + 1
         /\ Log'[Len(Log) + 1] = m
         /\ \A i \in DOMAIN Log : i \in DOMAIN Log' /\ Log'[i] = Log[i]
         /\ \A i \in DOMAIN Log' : i \in DOMAIN Log \/ i = Len(Log) + 1
         /\ m \in ToSet(Log')
         /\ \A x \in ToSet(Log) : x \in ToSet(Log')
<1>1. /\ Log \in Seq(Packet) /\ DOMAIN Log = 1 .. Len(Log) /\ Len(Log) \in Nat
  BY LogTyped
<1>2. /\ Log' \in Seq(Packet) /\ Len(Log') = Len(Log) + 1 /\ DOMAIN Log' = 1 .. Len(Log) + 1
      /\ Log'[Len(Log) + 1] = m
      /\ \A i \in 1 .. Len(Log) : Log'[i] = Log[i]
  BY <1>1, AppendProperties, LenProperties
<1> QED BY <1>1, <1>2 DEF ToSet

\* Every percentage lies below the highest one.
LEMMA PercentRange ==
  ASSUME NEW u \in Nat
  PROVE  Percent(u) \in Nat /\ Percent(u) < High
<1>1. u * (High - Low) \in Nat /\ High - Low \in Nat \ {0} /\ Total \in Nat \ {0}
  BY PortAssumption
<1> DEFINE amt == (u * (High - Low)) \div Total
<1>2. amt \in Nat
  BY <1>1
<1> HIDE DEF amt
<1>3. Percent(u) = Low + (IF amt >= High - Low THEN High - Low - 1 ELSE amt)
  BY DEF Percent, amt
<1> QED BY <1>1, <1>2, <1>3, PortAssumption

LEMMA MaxOfTwo ==
  ASSUME NEW a \in Nat, NEW b \in Nat
  PROVE  Max({a, b}) = IF a >= b THEN a ELSE b
<1> DEFINE P(x) == \A y \in {a, b} : x >= y
<1>1. \E x \in {a, b} : P(x)
  OBVIOUS
<1>2. Max({a, b}) = CHOOSE x \in {a, b} : P(x)
  BY DEF Max
<1>3. (CHOOSE x \in {a, b} : P(x)) \in {a, b} /\ P(CHOOSE x \in {a, b} : P(x))
  BY <1>1
<1> QED BY <1>2, <1>3

----------------------------------------------------------------------------
(* Induction                                                               *)

LEMMA InitPort == Init => PInv
<1> SUFFICES ASSUME Init PROVE PInv
  OBVIOUS
<1>0. Low \in Nat /\ High \in Nat /\ Low < High
  BY PortAssumption
<1>1. Log = <<Message("PR", Low)>> /\ out \in Seq(Packet)
  BY <1>0, Packets DEF Init, Log
<1>p. patient \in BOOLEAN
  <2>1. patient = FALSE \/ patient = (framing /\ handshake /\ Payload.ended)
    BY DEF Init
  <2> QED BY <2>1, Zenon
<1>2. PortTypes
  <2>1. seen \in Seq(Packet)
    BY DEF Init
  <2>2. progress \in [units : Nat, last_reported_percent : Nat]
    BY <1>0 DEF Init, progress_init
  <2>3. /\ pc = "work" /\ status = "none" /\ framing \in BOOLEAN /\ handshake \in BOOLEAN
        /\ closed \in BOOLEAN /\ broken \in BOOLEAN
    BY DEF Init
  <2> QED BY <1>1, <1>p, <2>1, <2>2, <2>3 DEF PortTypes
<1>3. LogOrder /\ Percentages /\ SaidSoFar
  BY <1>0, <1>1 DEF Init, LogOrder, Percentages, SaidSoFar, Message, progress_init
<1>4. Parting
  BY DEF Init, Parting
<1> QED BY <1>2, <1>3, <1>4 DEF PInv

\* The parent changes nothing that was said.
LEMMA ParentStep ==
  PInv /\ (ParentWrites \/ ParentReads \/ ParentCloses) => PInv'
<1> SUFFICES ASSUME PInv, ParentWrites \/ ParentReads \/ ParentCloses PROVE PInv'
  OBVIOUS
<1>0. seen \in Seq(Packet) /\ out \in Seq(Packet)
  BY DEF PInv, PortTypes
<1>1. /\ UNCHANGED <<framing, handshake, patient, pc, status, progress>>
      /\ \/ UNCHANGED <<seen, out, closed>> /\ (broken' = broken \/ (broken' = TRUE /\ pc = "exited" /\ ~closed))
         \/ UNCHANGED <<closed, broken>> /\ out # <<>> /\ seen' = Append(seen, Head(out)) /\ out' = Tail(out)
         \/ /\ UNCHANGED <<seen, out, broken>> /\ closed' = TRUE
            /\ Ctrl_Z \in ToSet(seen) \/ ~patient
  BY DEF ParentWrites, ParentReads, ParentCloses, input
<1>2. Log' = Log
  BY <1>0, <1>1, LogRead DEF Log
<1>3. PortTypes' /\ ToSet(seen) \subseteq ToSet(seen)'
  <2>1. CASE seen' = seen /\ out' = out
    <3>1. closed' \in BOOLEAN /\ broken' \in BOOLEAN
      BY <1>1, <2>1 DEF PInv, PortTypes
    <3> QED BY <1>1, <2>1, <3>1 DEF PInv, PortTypes, ToSet
  <2>2. CASE UNCHANGED <<closed, broken>> /\ out # <<>> /\ seen' = Append(seen, Head(out)) /\ out' = Tail(out)
    <3>1. Head(out) \in Packet /\ Tail(out) \in Seq(Packet)
      BY <1>0, <1>1, <2>2, HeadTailProperties
    <3>2. seen' \in Seq(Packet) /\ \A i \in DOMAIN seen : i \in DOMAIN seen' /\ seen'[i] = seen[i]
      <4>1. /\ seen' \in Seq(Packet) /\ Len(seen') = Len(seen) + 1 /\ Len(seen) \in Nat
            /\ \A i \in 1 .. Len(seen) : seen'[i] = seen[i]
        BY <1>0, <2>2, <3>1, AppendProperties, LenProperties
      <4>2. DOMAIN seen = 1 .. Len(seen) /\ DOMAIN seen' = 1 .. Len(seen')
        BY <1>0, <4>1, LenProperties
      <4> QED BY <4>1, <4>2
    <3> QED BY <1>1, <2>2, <3>1, <3>2 DEF PInv, PortTypes, ToSet
  <2> QED BY <1>1, <2>1, <2>2
<1>4. LogOrder' /\ Percentages' /\ SaidSoFar'
  BY <1>1, <1>2 DEF PInv, LogOrder, Percentages, SaidSoFar, ResultMessage
<1>5. Parting'
  BY <1>1, <1>3 DEF PInv, PortTypes, Parting
<1> QED BY <1>3, <1>4, <1>5 DEF PInv

\* A step of fwup that says nothing.
LEMMA SilentStep ==
  ASSUME PInv, UNCHANGED <<input, parent, out, progress>>,
         \/ pc \in {"work", "read"} /\ pc' \in {"work", "read"} /\ status' = status
         \/ pc \in {"work", "read"} /\ pc' = "result" /\ status' = "error"
         \/ pc = "drain" /\ pc' = "exited" /\ closed /\ status' = status
         \/ pc = "drain" /\ pc' = "drain" /\ status' = status
         \/ /\ pc = "result" /\ status = "ok" /\ ~framing /\ status' = status
            /\ pc' = IF handshake THEN "handshake" ELSE "exited"
  PROVE  PInv'
<1>1. UNCHANGED <<framing, handshake, patient, closed, broken, seen>> /\ Log' = Log
  BY DEF input, parent, Log
<1>2. PortTypes' /\ LogOrder' /\ Parting'
  BY <1>1 DEF PInv, PortTypes, LogOrder, Parting
<1>3. Percentages'
  <2>1. pc \in {"work", "read"} => \A i \in DOMAIN Log : Log[i] # Message("PR", High)
    BY Packets, PortAssumption DEF PInv, Percentages
  <2> QED BY <1>1, <2>1 DEF PInv, Percentages
<1>4. SaidSoFar'
  <2>1. pc = "result" => \A i \in DOMAIN Log : Log[i] # Ctrl_Z
    BY Packets DEF PInv, SaidSoFar
  <2> QED BY <1>1, <2>1 DEF PInv, SaidSoFar, ResultMessage
<1> QED BY <1>2, <1>3, <1>4 DEF PInv

\* fwup reports a percentage.
LEMMA ProgressStep ==
  ASSUME PInv, NEW p \in Nat, p <= High, pc = "work", output_progress(p),
         UNCHANGED <<input, parent>>,
         progress' \in [units : Nat, last_reported_percent : Nat],
         progress'.last_reported_percent = IF p >= progress.last_reported_percent THEN p
                                           ELSE progress.last_reported_percent,
         \/ p < High /\ pc' = "work" /\ status' = status
         \/ p = High /\ pc' = "result" /\ status' = "ok"
  PROVE  PInv'
<1>0. /\ PortTypes /\ LogOrder /\ Percentages /\ SaidSoFar /\ Parting
      /\ High \in Nat /\ Low \in Nat
  BY PortAssumption DEF PInv
<1>1. UNCHANGED <<framing, handshake, patient, closed, broken, seen>>
  BY DEF input, parent
<1> DEFINE last == progress.last_reported_percent
<1>2. /\ last \in Nat /\ last < High /\ seen \in Seq(Packet) /\ out \in Seq(Packet) /\ status = "none"
  BY <1>0 DEF PortTypes, Percentages
<1>3. Parting'
  BY <1>0, <1>1 DEF Parting
<1>4. CASE p <= last
  <2>1. UNCHANGED out /\ p < High /\ pc' = "work" /\ status' = status /\ progress'.last_reported_percent = last
    BY <1>0, <1>2, <1>4 DEF output_progress
  <2>2. Log' = Log
    BY <1>1, <2>1 DEF Log
  <2> QED BY <1>0, <1>1, <1>2, <1>3, <2>1, <2>2 DEF PInv, PortTypes, LogOrder, Percentages, SaidSoFar,
             ResultMessage
<1>5. CASE p > last
  <2> DEFINE m == Message("PR", p)
  <2>1. m \in Packet /\ m.type = "PR" /\ m.n = p /\ out' = Append(out, m)
    BY <1>2, <1>5, Packets DEF output_progress, fwup_output
  <2> HIDE DEF m
  <2>2. Log' = Append(Log, m) /\ out' \in Seq(Packet)
    BY <1>1, <1>2, <2>1, LogSaid, AppendProperties DEF Log
  <2>3. /\ \A i \in DOMAIN Log : i \in DOMAIN Log' /\ Log'[i] = Log[i]
        /\ \A i \in DOMAIN Log' : i \in DOMAIN Log \/ i = Len(Log) + 1
        /\ Log'[Len(Log) + 1] = m /\ DOMAIN Log = 1 .. Len(Log) /\ Len(Log) \in Nat
        /\ \A i \in DOMAIN Log : Log[i] \in Packet
    BY <1>0, <2>1, <2>2, Appended, LogTyped
  <2>4. progress'.last_reported_percent = p
    BY <1>2, <1>5
  <2>5. \A i \in DOMAIN Log : Log[i].type = "PR" /\ Log[i].n \in Nat /\ Log[i].n < p
    BY <1>0, <1>2, <1>5, <2>3, Packets DEF SaidSoFar, Percentages
  <2>6. \A i \in DOMAIN Log' : Log'[i].type = "PR" /\ Log'[i].n \in Nat /\ Log'[i].n <= p
    BY <2>1, <2>3, <2>5
  <2>7. LogOrder'
    <3> SUFFICES ASSUME NEW i \in DOMAIN Log', NEW j \in DOMAIN Log', i < j
                 PROVE  Log'[i].type = "PR" /\ Log'[i].n < Log'[j].n
      BY DEF LogOrder
    <3>1. i \in DOMAIN Log
      BY <2>3
    <3>2. CASE j \in DOMAIN Log
      BY <1>0, <2>3, <2>5, <3>1, <3>2, Packets DEF LogOrder
    <3>3. CASE j = Len(Log) + 1
      BY <2>1, <2>3, <2>5, <3>1, <3>3
    <3> QED BY <2>3, <3>2, <3>3
  <2>8. Percentages'
    BY <1>0, <1>2, <2>4, <2>6, Packets DEF Percentages
  <2>9. SaidSoFar'
    BY <1>0, <1>2, <2>6 DEF SaidSoFar
  <2>10. PortTypes'
    BY <1>0, <1>1, <2>2 DEF PortTypes
  <2> QED BY <1>3, <2>7, <2>8, <2>9, <2>10 DEF PInv
<1> QED BY <1>2, <1>4, <1>5

\* fwup says its result or Ctrl-Z.
LEMMA LastWords ==
  ASSUME PInv, NEW m \in Results \cup {Ctrl_Z}, out' = Append(out, m),
         UNCHANGED <<input, parent, progress, status>>,
         \/ pc = "result" /\ m = ResultMessage /\ pc' = IF handshake THEN "handshake" ELSE "exited"
         \/ pc = "handshake" /\ m = Ctrl_Z /\ pc' = "drain"
  PROVE  PInv'
<1>0. /\ PortTypes /\ LogOrder /\ Percentages /\ SaidSoFar /\ Parting
  BY DEF PInv
<1>1. UNCHANGED <<framing, handshake, patient, closed, broken, seen>>
  BY DEF input, parent
<1>2. m \in Packet /\ m.type # "PR" /\ Ctrl_Z \notin Results /\ seen \in Seq(Packet) /\ out \in Seq(Packet)
  BY <1>0, Packets DEF PortTypes
<1>3. Log' = Append(Log, m) /\ out' \in Seq(Packet)
  BY <1>1, <1>2, LogSaid, AppendProperties DEF Log
<1>4. /\ \A i \in DOMAIN Log : i \in DOMAIN Log' /\ Log'[i] = Log[i]
      /\ \A i \in DOMAIN Log' : i \in DOMAIN Log \/ i = Len(Log) + 1
      /\ Log'[Len(Log) + 1] = m /\ DOMAIN Log = 1 .. Len(Log) /\ Len(Log) \in Nat
      /\ \A i \in DOMAIN Log : Log[i] \in Packet
      /\ m \in ToSet(Log') /\ \A x \in ToSet(Log) : x \in ToSet(Log')
  BY <1>0, <1>2, <1>3, Appended, LogTyped
<1>5. ResultMessage' = ResultMessage /\ ResultMessage \in Results
  BY <1>0 DEF ResultMessage, Message, Results
<1>6. Parting' /\ PortTypes'
  BY <1>0, <1>1, <1>3 DEF Parting, PortTypes
<1>7. Percentages'
  <2>1. \A n \in Nat : m # Message("PR", n)
    BY <1>2, Packets
  <2>2. High \in Nat
    BY PortAssumption
  <2> QED BY <1>0, <1>2, <1>4, <2>1, <2>2 DEF Percentages
<1>8. LogOrder'
  <2> SUFFICES ASSUME NEW i \in DOMAIN Log', NEW j \in DOMAIN Log', i < j
               PROVE  \/ Log'[i].type = "PR" /\ (Log'[j].type = "PR" => Log'[i].n < Log'[j].n)
                      \/ Log'[i] \in Results /\ Log'[j] = Ctrl_Z
    BY DEF LogOrder
  <2>1. i \in DOMAIN Log
    BY <1>4
  <2>2. CASE j \in DOMAIN Log
    BY <1>0, <1>4, <2>1, <2>2 DEF LogOrder
  <2>3. CASE j = Len(Log) + 1
    BY <1>0, <1>2, <1>4, <2>1, <2>3, Packets DEF SaidSoFar
  <2> QED BY <1>4, <2>2, <2>3
<1>9. SaidSoFar'
  <2>1. pc' = "handshake" => \A i \in DOMAIN Log' : Log'[i] # Ctrl_Z
    <3> SUFFICES ASSUME pc' = "handshake" PROVE \A i \in DOMAIN Log' : Log'[i] # Ctrl_Z
      OBVIOUS
    <3>1. pc = "result" /\ m # Ctrl_Z
      BY <1>2, <1>5
    <3>2. \A i \in DOMAIN Log : Log[i] # Ctrl_Z
      BY <1>0, <1>4, <3>1, Packets DEF SaidSoFar
    <3> QED BY <1>4, <3>1, <3>2
  <2> QED BY <1>0, <1>1, <1>4, <1>5, <2>1 DEF SaidSoFar
<1> QED BY <1>6, <1>7, <1>8, <1>9 DEF PInv

LEMMA FwupStep == PInv /\ Fwup => PInv'
<1> SUFFICES ASSUME PInv, Fwup PROVE PInv'
  OBVIOUS
<1>0. /\ progress \in [units : Nat, last_reported_percent : Nat] /\ High \in Nat
      /\ progress.last_reported_percent \in Nat /\ progress.units \in Nat
  BY PortAssumption DEF PInv, PortTypes
<1>1. CASE WorkOn
  <2> DEFINE p == Percent(progress.units + 1)
  <2>1. p \in Nat /\ p < High
    BY <1>0, PercentRange
  <2>2. /\ output_progress(p) /\ UNCHANGED <<input, parent, pc, status>> /\ pc = "work"
        /\ progress' = [units |-> progress.units + 1,
                        last_reported_percent |-> Max({p, progress.last_reported_percent})]
    BY <1>1 DEF WorkOn
  <2> HIDE DEF p
  <2>3. /\ progress' \in [units : Nat, last_reported_percent : Nat]
        /\ progress'.last_reported_percent = IF p >= progress.last_reported_percent THEN p
                                             ELSE progress.last_reported_percent
    BY <1>0, <2>1, <2>2, MaxOfTwo
  <2> QED BY <1>0, <2>1, <2>2, <2>3, ProgressStep
<1>2. CASE Succeed
  <2>1. /\ output_progress(High) /\ UNCHANGED <<input, parent>> /\ pc = "work"
        /\ progress' = [progress EXCEPT !.last_reported_percent = High]
        /\ status' = "ok" /\ pc' = "result"
    BY <1>2 DEF Succeed
  <2>2. /\ progress' \in [units : Nat, last_reported_percent : Nat]
        /\ progress'.last_reported_percent = High
    BY <1>0, <2>1
  <2>3. High >= progress.last_reported_percent
    BY <1>0, <2>1 DEF PInv, Percentages
  <2> QED BY <1>0, <2>1, <2>2, <2>3, ProgressStep
<1>3. CASE Read \/ normal_read \/ ReadLength \/ ReadFrame \/ GiveUp
  <2>1. /\ UNCHANGED <<input, parent, out, progress>>
        /\ \/ pc \in {"work", "read"} /\ pc' \in {"work", "read"} /\ status' = status
           \/ pc \in {"work", "read"} /\ pc' = "result" /\ status' = "error"
    BY <1>3 DEF Read, normal_read, ReadLength, ReadFrame, GiveUp, Fail
  <2> QED BY <2>1, SilentStep
<1>4. CASE Drain
  <2>1. /\ UNCHANGED <<input, parent, out, progress, status>>
        /\ \/ pc = "drain" /\ pc' = "exited" /\ closed
           \/ pc = "drain" /\ pc' = "drain"
    BY <1>4 DEF Drain, EndOfInput
  <2> QED BY <2>1, SilentStep
<1>5. CASE Result
  <2>1. /\ pc = "result" /\ pc' = (IF handshake THEN "handshake" ELSE "exited")
        /\ UNCHANGED <<input, parent, status, progress>>
        /\ fwup_output(ResultMessage.type, 0) /\ status \in {"ok", "error"}
    BY <1>5 DEF Result, PInv, PortTypes, SaidSoFar
  <2>2. ResultMessage \in Results /\ Message(ResultMessage.type, 0) = ResultMessage
        /\ (ResultMessage.type = "OK" <=> status = "ok")
    BY <2>1 DEF ResultMessage, Results, Message
  <2>3. \/ status = "ok" /\ ~framing /\ UNCHANGED out
        \/ out' = Append(out, ResultMessage)
    BY <2>1, <2>2 DEF fwup_output
  <2>4. CASE out' = Append(out, ResultMessage)
    BY <2>1, <2>2, <2>4, LastWords
  <2>5. CASE status = "ok" /\ ~framing /\ UNCHANGED out
    BY <2>1, <2>5, SilentStep
  <2> QED BY <2>3, <2>4, <2>5
<1>6. CASE SendCtrlZ
  <2>1. /\ pc = "handshake" /\ pc' = "drain" /\ UNCHANGED <<input, parent, status, progress>>
        /\ out' = Append(out, Ctrl_Z)
    BY <1>6 DEF SendCtrlZ, fwup_output, Ctrl_Z
  <2> QED BY <2>1, LastWords
<1> QED BY <1>1, <1>2, <1>3, <1>4, <1>5, <1>6 DEF Fwup

\* The invariant holds in every reachable state.
THEOREM PortInvariant == Spec => []PInv
<1>1. PInv /\ [Next]_vars => PInv'
  <2> SUFFICES ASSUME PInv, [Next]_vars PROVE PInv'
    OBVIOUS
  <2>1. CASE Over \/ UNCHANGED vars
    <3>1. UNCHANGED <<framing, handshake, patient, seen, out, closed, broken, pc, status, progress>> /\ Log' = Log
      BY <2>1 DEF Over, vars, input, parent, Log
    <3> QED BY <3>1 DEF PInv, PortTypes, LogOrder, Percentages, SaidSoFar, Parting, ResultMessage
  <2> QED BY <2>1, ParentStep, FwupStep DEF Next
<1> QED BY <1>1, InitPort, PTL DEF Spec

\* What the parent reads is in order, a success is never announced too early,
\* the result is never missing, and the handshake keeps its promises.
THEOREM LogIsExact == Spec => []LogExact
<1>1. PInv => LogExact
  <2> SUFFICES ASSUME PInv PROVE LogExact
    OBVIOUS
  <2>1. LogOrder /\ Percentages /\ SaidSoFar /\ Parting /\ PortTypes
    BY DEF PInv
  <2>2. ASSUME pc = "exited", patient
        PROVE  seen # <<>> /\ Last(seen) = Ctrl_Z /\ out = <<>>
    <3>1. Ctrl_Z \in ToSet(seen) /\ seen \in Seq(Packet) /\ out \in Seq(Packet)
      BY <2>1, <2>2 DEF Parting, PortTypes
    <3>2. PICK i \in DOMAIN seen : seen[i] = Ctrl_Z
      BY <3>1 DEF ToSet
    <3>3. /\ Len(Log) = Len(seen) + Len(out) /\ Len(seen) \in Nat /\ Len(out) \in Nat
          /\ DOMAIN Log = 1 .. Len(Log) /\ DOMAIN seen = 1 .. Len(seen) /\ Log[i] = Ctrl_Z
      BY <2>1, <3>1, <3>2, LogTyped, ConcatProperties, LenProperties DEF Log
    <3>4. i = Len(Log)
      <4> SUFFICES ASSUME i # Len(Log) PROVE FALSE
        OBVIOUS
      <4>1. i \in DOMAIN Log /\ Len(Log) \in DOMAIN Log /\ i < Len(Log)
        BY <3>2, <3>3
      <4> QED BY <2>1, <3>3, <4>1, Packets DEF LogOrder
    <3>5. i = Len(seen) /\ Len(out) = 0
      <4>1. i \in 1 .. Len(seen)
        BY <3>2, <3>3
      <4>2. i = Len(seen) + Len(out)
        BY <3>3, <3>4
      <4>3. Len(seen) \in Nat /\ Len(out) \in Nat
        BY <3>3
      <4>4. \A a, b \in Nat : a + b \in 1 .. a => b = 0
        OBVIOUS
      <4>5. Len(out) = 0
        BY <4>1, <4>2, <4>3, <4>4
      <4> QED BY <4>2, <4>3, <4>5
    <3> QED BY <3>1, <3>2, <3>3, <3>5, EmptySeq DEF Last
  <2> QED BY <2>1, <2>2 DEF LogExact, LogOrder, Percentages, SaidSoFar, Parting
<1> QED BY <1>1, PortInvariant, PTL

----------------------------------------------------------------------------
(* The input                                                               *)

\* The invariant of reading frames.  p units of the stream have been read; V are
\* the frames that have begun, all of them but possibly the last one complete;
\* is lists the positions of what libarchive was given.
Units == 0 .. Base - 1
NextFrame(p) == p + 1 + ad.current_frame_remaining
Pipes(p) ==
  /\ p \in Nat /\ p + Len(inp) <= Len(stream)
  /\ \A i \in 1 .. Len(inp) : inp[i] = stream[p + i]
  /\ ~closed => /\ p + Len(inp) + Len(unsent) = Len(stream)
                /\ \A i \in 1 .. Len(unsent) : unsent[i] = stream[p + Len(inp) + i]
Begun(p, V) ==
  /\ V \subseteq Starts
  /\ \A v \in V : /\ v + 1 <= p /\ Length(v) > 0
                  /\ Behind(v) \in V \cup {NextFrame(p)}
  /\ 1 \in V \cup {NextFrame(p)}
  /\ NextFrame(p) \in DOMAIN stream => NextFrame(p) \in Starts
Header(V, i) == \E v \in V : i \in {v, v + 1}
Lists(g, p, V, is) ==
  /\ is \in [1 .. Len(g) -> 1 .. p]
  /\ \A j, k \in 1 .. Len(g) : j < k => is[j] < is[k]
  /\ \A k \in 1 .. Len(g) : g[k] = stream[is[k]]
  /\ \A i \in 1 .. p : (\E k \in 1 .. Len(g) : is[k] = i) <=> ~Header(V, i)
Given(p, V, is) == Lists(got, p, V, is)
Place == \E p, V, is : Pipes(p) /\ Begun(p, V) /\ Given(p, V, is)

InputTypes ==
  /\ stream \in Seq(Units) /\ inp \in Seq(Units) /\ unsent \in Seq(Units) /\ got \in Seq(Units)
  /\ ad \in [current_frame_remaining : Nat, is_eof : BOOLEAN]
Reading == pc \in {"work", "read"} /\ ~ad.is_eof
FrameInv ==
  /\ InputTypes
  /\ pc = "read" => ~ad.is_eof
  /\ framing /\ Reading => Place
  /\ FramedExact

\* The positions of an increasing list are the first ones of a set, if they are
\* all of the set up to some point.
LEMMA FirstOnes ==
  ASSUME NEW N \in Nat, NEW D \in SUBSET (1 .. N), NEW p \in Nat, NEW n \in Nat,
         NEW is \in [1 .. n -> 1 .. p],
         \A j, k \in 1 .. n : j < k => is[j] < is[k],
         \A i \in 1 .. p : i \in D <=> \E k \in 1 .. n : is[k] = i
  PROVE  /\ Cardinality(D) \in Nat /\ n <= Cardinality(D)
         /\ \A k \in 1 .. n : Nth(D, k) = is[k]
         /\ D \subseteq 1 .. p => n = Cardinality(D)
<1>1. IsFiniteSet(D) /\ Cardinality(D) \in Nat /\ \A T \in SUBSET D : IsFiniteSet(T) /\ Cardinality(T) \in Nat
  <2>1. IsFiniteSet(1 .. N)
    BY FS_Interval
  <2>2. IsFiniteSet(D)
    BY <2>1, FS_Subset
  <2>3. \A T \in SUBSET D : IsFiniteSet(T)
    BY <2>2, FS_Subset
  <2> QED BY <2>2, <2>3, FS_CardinalityType
<1>2. ASSUME NEW k \in 0 .. n
      PROVE  LET T == {is[x] : x \in 1 .. k} IN T \in SUBSET D /\ Cardinality(T) = k
  <2> DEFINE T == {is[x] : x \in 1 .. k}
             f == [x \in 1 .. k |-> is[x]]
  <2>1. T \in SUBSET D
    OBVIOUS
  <2>2. f \in Bijection(1 .. k, T)
    <3>1. f \in [1 .. k -> T]
      OBVIOUS
    <3>2. \A x, y \in 1 .. k : f[x] = f[y] => x = y
      <4> SUFFICES ASSUME NEW x \in 1 .. k, NEW y \in 1 .. k, x # y PROVE f[x] # f[y]
        OBVIOUS
      <4>1. x \in 1 .. n /\ y \in 1 .. n /\ (x < y \/ y < x) /\ f[x] = is[x] /\ f[y] = is[y]
        OBVIOUS
      <4>2. is[x] \in Nat /\ is[y] \in Nat
        BY <4>1
      <4> QED BY <4>1, <4>2
    <3>3. \A t \in T : \E x \in 1 .. k : f[x] = t
      OBVIOUS
    <3> HIDE DEF f, T
    <3>4. f \in Injection(1 .. k, T)
      BY <3>1, <3>2 DEF Injection, IsInjective
    <3>5. f \in Surjection(1 .. k, T)
      BY <3>1, <3>3 DEF Surjection
    <3> QED BY <3>4, <3>5 DEF Bijection
  <2>3. IsFiniteSet(1 .. k) /\ Cardinality(1 .. k) = k
    <3>1. 1 \in Int /\ k \in Int
      OBVIOUS
    <3> QED BY <3>1, FS_Interval
  <2>4. Cardinality(T) = k
    BY <2>2, <2>3, FS_Bijection DEF ExistsBijection
  <2> QED BY <2>1, <2>4
<1>3. n <= Cardinality(D) /\ (D \subseteq 1 .. p => n = Cardinality(D))
  <2> DEFINE T == {is[x] : x \in 1 .. n}
  <2>1. T \in SUBSET D /\ Cardinality(T) = n
    BY <1>2
  <2>2. D \subseteq 1 .. p => D = T
    BY <2>1
  <2> HIDE DEF T
  <2>3. Cardinality(T) <= Cardinality(D)
    BY <2>1, <1>1, FS_Subset
  <2> QED BY <2>1, <2>2, <2>3
<1>4. ASSUME NEW i \in D, NEW j \in D, i < j PROVE Cardinality(UpTo(D, i)) < Cardinality(UpTo(D, j))
  <2>1. UpTo(D, i) \in SUBSET UpTo(D, j) /\ UpTo(D, j) \in SUBSET D /\ j \in UpTo(D, j) /\ j \notin UpTo(D, i)
    <3>1. i \in Nat /\ j \in Nat /\ \A x \in D : x \in Nat
      OBVIOUS
    <3>2. \A x \in D : x <= i => x <= j
      BY <3>1, <1>4
    <3>3. j <= j /\ ~(j <= i)
      BY <3>1, <1>4
    <3> QED BY <3>2, <3>3 DEF UpTo
  <2>2. IsFiniteSet(UpTo(D, j)) /\ Cardinality(UpTo(D, j)) \in Nat /\ Cardinality(UpTo(D, i)) \in Nat
    BY <2>1, <1>1
  <2>3. /\ Cardinality(UpTo(D, i)) <= Cardinality(UpTo(D, j))
        /\ Cardinality(UpTo(D, j)) # Cardinality(UpTo(D, i))
    BY <2>1, <2>2, FS_Subset
  <2> QED BY <2>2, <2>3
<1>5. ASSUME NEW k \in 1 .. n PROVE Nth(D, k) = is[k]
  <2>1. is[k] \in D /\ is[k] \in 1 .. p
    OBVIOUS
  <2>2. UpTo(D, is[k]) = {is[x] : x \in 1 .. k}
    <3>1. ASSUME NEW x \in 1 .. k PROVE is[x] \in UpTo(D, is[k])
      <4>1. x \in 1 .. n /\ (x < k \/ x = k) /\ is[x] \in D /\ is[x] \in Nat /\ is[k] \in Nat
        OBVIOUS
      <4>2. is[x] <= is[k]
        BY <4>1
      <4> QED BY <4>1, <4>2 DEF UpTo
    <3>2. ASSUME NEW j \in UpTo(D, is[k]) PROVE \E x \in 1 .. k : is[x] = j
      <4>1. j \in D /\ j <= is[k] /\ j \in 1 .. p
        BY <2>1 DEF UpTo
      <4>2. PICK x \in 1 .. n : is[x] = j
        BY <4>1
      <4>3. ~(k < x)
        <5>1. k < x => is[k] < is[x]
          OBVIOUS
        <5> QED BY <5>1, <4>1, <4>2, <2>1
      <4> QED BY <4>2, <4>3
    <3> QED BY <3>1, <3>2
  <2>3. Cardinality(UpTo(D, is[k])) = k
    BY <2>2, <1>2
  <2>4. \A i \in D : Cardinality(UpTo(D, i)) = k => i = is[k]
    <3> SUFFICES ASSUME NEW i \in D, Cardinality(UpTo(D, i)) = k, i # is[k] PROVE FALSE
      OBVIOUS
    <3>1. i < is[k] \/ is[k] < i
      BY <2>1
    <3> QED BY <3>1, <2>1, <2>3, <1>4
  <2> QED BY <2>1, <2>3, <2>4 DEF Nth
<1> QED BY <1>1, <1>3, <1>5

\* Lengths are numbers, and a frame ends behind its length.
LEMMA Lengths ==
  ASSUME InputTypes, NEW i \in Nat \ {0}, i + 1 <= Len(stream)
  PROVE  /\ i \in DOMAIN stream /\ i + 1 \in DOMAIN stream
         /\ Length(i) \in Nat /\ Behind(i) = i + 2 + Length(i)
<1>1. stream \in Seq(Units) /\ DOMAIN stream = 1 .. Len(stream) /\ Len(stream) \in Nat
  BY LenProperties DEF InputTypes
<1>2. i \in DOMAIN stream /\ i + 1 \in DOMAIN stream
  BY <1>1
<1>3. stream[i] \in Nat /\ stream[i + 1] \in Nat /\ Base \in Nat
  BY <1>1, <1>2, ElementOfSeq, PortAssumption DEF Units
<1>4. stream[i] * Base \in Nat
  BY <1>3
<1> QED BY <1>2, <1>3, <1>4 DEF Length, Behind, HeaderLen

\* Starts has the frames: it is itself closed.
LEMMA StartsClosed ==
  ASSUME NEW i \in DOMAIN stream,
         i = 1 \/ \E s \in Starts : HasLength(s) /\ Length(s) > 0 /\ i = Behind(s)
  PROVE  i \in Starts
<1> SUFFICES ASSUME NEW S \in SUBSET DOMAIN stream, \A j \in DOMAIN stream : FrameAt(j, S) => j \in S
             PROVE  i \in S
  BY DEF Starts
<1>1. Starts \subseteq S
  BY DEF Starts
<1>2. FrameAt(i, S)
  BY <1>1 DEF FrameAt
<1> QED BY <1>2

\* No frame starts that was not seen: all others start where the next one
\* starts, or later.
LEMMA NoOtherStart ==
  ASSUME InputTypes, NEW p, NEW V, Pipes(p), Begun(p, V)
  PROVE  \A s \in Starts : s \in V \/ s >= NextFrame(p)
<1> DEFINE later == {i \in DOMAIN stream : i >= NextFrame(p)}
           S == V \cup later
<1>0. /\ DOMAIN stream = 1 .. Len(stream) /\ Len(stream) \in Nat /\ p \in Nat
      /\ NextFrame(p) \in Nat /\ Starts \subseteq DOMAIN stream
      /\ Len(inp) \in Nat /\ p <= Len(stream)
  BY LenProperties DEF InputTypes, Pipes, NextFrame, Starts
<1>1. S \in SUBSET DOMAIN stream
  BY <1>0 DEF Begun
<1>2. ASSUME NEW j \in DOMAIN stream, FrameAt(j, S) PROVE j \in S
  <2>1. CASE j = 1
    BY <2>1, <1>0 DEF Begun
  <2>2. ASSUME NEW s \in S, HasLength(s), Length(s) > 0, j = Behind(s) PROVE j \in S
    <3>1. CASE s \in V
      BY <3>1, <2>2, <1>0 DEF Begun
    <3>2. CASE s \in later
      <4>1. s \in Nat \ {0} /\ s + 1 <= Len(stream) /\ s >= NextFrame(p)
        BY <3>2, <2>2, <1>0 DEF HasLength
      <4>2. j = s + 2 + Length(s) /\ Length(s) \in Nat
        BY <4>1, <2>2, Lengths
      <4> QED BY <4>1, <4>2, <1>0
    <3> QED BY <3>1, <3>2
  <2> QED BY <1>2, <2>1, <2>2 DEF FrameAt
<1>3. Starts \subseteq S
  BY <1>1, <1>2 DEF Starts
<1> QED BY <1>3

\* Up to the next frame the payload is what lies outside of the headers seen.
LEMMA DataSoFar ==
  ASSUME InputTypes, NEW p, NEW V, Pipes(p), Begun(p, V),
         NEW i \in DOMAIN stream, i < NextFrame(p)
  PROVE  i \in Data(Starts, Ends(Starts)) <=> ~Header(V, i)
<1>0. /\ DOMAIN stream = 1 .. Len(stream) /\ Len(stream) \in Nat /\ i \in Nat
      /\ Starts \subseteq DOMAIN stream
      /\ NextFrame(p) \in Nat
  BY LenProperties DEF InputTypes, Pipes, NextFrame, Starts
<1>2. ASSUME Header(V, i) PROVE i \notin Data(Starts, Ends(Starts))
  BY <1>2 DEF Header, Data, Begun
<1>3. ASSUME ~Header(V, i) PROVE i \in Data(Starts, Ends(Starts))
  <2>1. ASSUME NEW s \in Starts PROVE i \notin {s, s + 1}
    <3>1. CASE s \in V
      BY <3>1, <1>3 DEF Header
    <3>2. CASE s >= NextFrame(p)
      <4>1. s \in Nat
        BY <1>0
      <4> QED BY <4>1, <3>2, <1>0
    <3> QED BY <3>1, <3>2, NoOtherStart
  <2>2. ASSUME NEW e \in Ends(Starts) PROVE i < e
    <3>1. e \in Starts /\ Length(e) = 0 /\ e \in Nat
      BY <1>0 DEF Ends
    <3>2. e \notin V
      BY <3>1 DEF Begun
    <3>3. e >= NextFrame(p)
      BY <3>1, <3>2, NoOtherStart
    <3> QED BY <3>1, <3>3, <1>0
  <2> QED BY <2>1, <2>2 DEF Data
<1> QED BY <1>2, <1>3

\* What is listed is the payload, as far as it has been read.
LEMMA GivenIsPrefix ==
  ASSUME InputTypes, NEW p, NEW V, Pipes(p), Begun(p, V),
         NEW q \in Nat, q < NextFrame(p), q <= Len(stream),
         NEW g \in Seq(Units), NEW is, Lists(g, q, V, is)
  PROVE  /\ IsPrefix(g, Payload.units)
         /\ Data(Starts, Ends(Starts)) \subseteq 1 .. q => g = Payload.units
<1> DEFINE D == Data(Starts, Ends(Starts))
           n == Len(g)
           u == Payload.units
<1>0. /\ Len(stream) \in Nat /\ D \in SUBSET (1 .. Len(stream)) /\ n \in Nat
      /\ g \in Seq(Units) /\ DOMAIN g = 1 .. n
  BY LenProperties DEF InputTypes, Pipes, Data
<1>1. u = [k \in 1 .. Cardinality(D) |-> stream[Nth(D, k)]]
  BY DEF Payload
<1>2. \A i \in 1 .. q : i \in D <=> \E k \in 1 .. n : is[k] = i
  <2> TAKE i \in 1 .. q
  <2>1. p \in Nat /\ NextFrame(p) \in Nat /\ i \in DOMAIN stream /\ i < NextFrame(p)
    BY <1>0, LenProperties DEF InputTypes, Pipes, NextFrame
  <2>2. i \in D <=> ~Header(V, i)
    BY <2>1, DataSoFar
  <2> QED BY <2>2 DEF Lists
<1>3. /\ is \in [1 .. n -> 1 .. q]
      /\ \A j, k \in 1 .. n : j < k => is[j] < is[k]
      /\ \A k \in 1 .. n : g[k] = stream[is[k]]
  BY DEF Lists
<1> HIDE DEF D, n, u
<1>4. /\ Cardinality(D) \in Nat /\ n <= Cardinality(D)
      /\ \A k \in 1 .. n : Nth(D, k) = is[k]
      /\ D \subseteq 1 .. q => n = Cardinality(D)
  BY <1>0, <1>2, <1>3, FirstOnes
<1>5. DOMAIN u = 1 .. Cardinality(D) /\ Len(u) = Cardinality(D)
  BY <1>1, <1>4
<1>6. \A k \in 1 .. n : k \in 1 .. Cardinality(D) /\ u[k] = g[k]
  <2> TAKE k \in 1 .. n
  <2>1. k \in 1 .. Cardinality(D)
    BY <1>0, <1>4
  <2>2. u[k] = stream[Nth(D, k)]
    BY <2>1, <1>1
  <2> QED BY <2>1, <2>2, <1>3, <1>4
<1>7. SubSeq(g, 1, n) = SubSeq(u, 1, n)
  <2>1. SubSeq(g, 1, n) = [k \in 1 .. n |-> g[k]] /\ SubSeq(u, 1, n) = [k \in 1 .. n |-> u[k]]
    BY <1>0 DEF SubSeq
  <2> QED BY <2>1, <1>6
<1>8. IsPrefix(g, u)
  BY <1>4, <1>5, <1>7 DEF IsPrefix, n
<1>9. ASSUME D \subseteq 1 .. q PROVE g = u
  <2>1. n = Cardinality(D)
    BY <1>9, <1>4
  <2>2. g = [k \in 1 .. n |-> g[k]]
    BY <1>0
  <2> QED BY <2>1, <2>2, <1>1, <1>6
<1> QED BY <1>8, <1>9 DEF D, u

LEMMA ReadSoFar ==
  ASSUME InputTypes, NEW p, NEW V, NEW is, Pipes(p), Begun(p, V), Given(p, V, is)
  PROVE  /\ IsPrefix(got, Payload.units)
         /\ Data(Starts, Ends(Starts)) \subseteq 1 .. p => got = Payload.units
<1>1. p \in Nat /\ p < NextFrame(p) /\ p <= Len(stream) /\ got \in Seq(Units)
  BY LenProperties DEF InputTypes, Pipes, NextFrame
<1> QED BY <1>1, GivenIsPrefix DEF Given

----------------------------------------------------------------------------
(* Reading preserves it                                                    *)

LEMMA FrameInit == Init => FrameInv
<1> SUFFICES ASSUME Init PROVE FrameInv
  OBVIOUS
<1>1. /\ stream \in Seq(Units) /\ unsent = stream /\ inp = <<>> /\ got = <<>> /\ pc = "work"
      /\ ad = [current_frame_remaining |-> 0, is_eof |-> FALSE]
  BY PortAssumption DEF Init, Units, fwup_archive_open_filename
<1>2. InputTypes
  BY <1>1 DEF InputTypes
<1>3. Len(stream) \in Nat /\ DOMAIN stream = 1 .. Len(stream) /\ Len(inp) = 0 /\ Len(got) = 0
  BY <1>1, LenProperties
<1>4. Pipes(0)
  BY <1>1, <1>3 DEF Pipes
<1>5. Begun(0, {})
  <2>1. NextFrame(0) = 1
    BY <1>1 DEF NextFrame
  <2> QED BY <2>1, StartsClosed DEF Begun
<1>6. Given(0, {}, [k \in 1 .. Len(got) |-> 1])
  BY <1>3 DEF Given, Lists
<1>7. IsPrefix(got, Payload.units)
  BY <1>1, <1>2, <1>4, <1>5, <1>6, ReadSoFar
<1> QED BY <1>1, <1>2, <1>4, <1>5, <1>6, <1>7 DEF FrameInv, Place, FramedExact

\* What follows if the stream and what was made of it stay as they are.
LEMMA SameFrames ==
  ASSUME stream' = stream
  PROVE  /\ Starts' = Starts /\ Payload' = Payload
         /\ \A i : Length(i)' = Length(i) /\ Behind(i)' = Behind(i)
<1>1. \A i : Length(i)' = Length(i) /\ Behind(i)' = Behind(i) /\ HasLength(i)' = HasLength(i)
  BY DEF Length, Behind, HasLength
<1>2. \A i, S : FrameAt(i, S)' = FrameAt(i, S)
  BY <1>1 DEF FrameAt
<1>3. Starts' = Starts
  BY <1>2 DEF Starts
<1>4. \A S : Ends(S)' = Ends(S)
  BY <1>1 DEF Ends
<1>5. \A S, T : Data(S, T)' = Data(S, T)
  BY DEF Data
<1>6. Ends(Starts)' = Ends(Starts)
  BY <1>3, <1>4 DEF Ends, HasLength, Length
<1>7. Data(Starts, Ends(Starts))' = Data(Starts, Ends(Starts))
  BY <1>3, <1>6 DEF Data
<1>8. Payload' = Payload
  BY <1>6, <1>7 DEF Payload
<1> QED BY <1>1, <1>3, <1>8

\* A step that reads nothing, or gives up.
LEMMA NothingRead ==
  ASSUME FrameInv, UNCHANGED <<framing, stream, ad, got>>,
         inp' \in Seq(Units), unsent' \in Seq(Units),
         pc' = "read" => ~ad.is_eof,
         pc' \in {"work", "read"} => /\ pc \in {"work", "read"}
                                     /\ \A p : Pipes(p) => Pipes(p)'
  PROVE  FrameInv'
<1>1. InputTypes'
  BY DEF FrameInv, InputTypes
<1>2. FramedExact'
  BY SameFrames DEF FrameInv, FramedExact
<1>3. ASSUME framing', Reading' PROVE Place'
  <2>1. Reading /\ framing /\ Place
    BY <1>3 DEF FrameInv, Reading
  <2>2. PICK p, V, is : Pipes(p) /\ Begun(p, V) /\ Given(p, V, is)
    BY <2>1 DEF Place
  <2>3. Pipes(p)'
    BY <2>2, <1>3 DEF Reading
  <2>4. Begun(p, V)'
    BY <2>2, SameFrames DEF Begun, NextFrame
  <2>5. Given(p, V, is)'
    BY <2>2 DEF Given, Lists, Header
  <2> QED BY <2>3, <2>4, <2>5 DEF Place
<1> QED BY <1>1, <1>2, <1>3 DEF FrameInv

LEMMA ParentFrames ==
  ASSUME FrameInv, ParentWrites \/ ParentReads \/ ParentCloses
  PROVE  FrameInv'
<1>0. /\ stream \in Seq(Units) /\ inp \in Seq(Units) /\ unsent \in Seq(Units)
      /\ Len(stream) \in Nat /\ Len(inp) \in Nat /\ Len(unsent) \in Nat
  BY LenProperties DEF FrameInv, InputTypes
<1>1. UNCHANGED <<framing, stream, ad, got, pc>> /\ (pc = "read" => ~ad.is_eof)
  BY DEF FrameInv, ParentWrites, ParentReads, ParentCloses, input
<1>2. CASE ParentReads
  <2>1. UNCHANGED <<inp, unsent, closed>>
    BY <1>2 DEF ParentReads
  <2>2. \A p : Pipes(p) => Pipes(p)'
    BY <2>1, <1>1 DEF Pipes
  <2> QED BY <2>1, <2>2, <1>0, <1>1, NothingRead
<1>3. CASE ParentCloses
  <2>1. inp' = inp /\ closed' = TRUE /\ unsent' = <<>>
    BY <1>3 DEF ParentCloses
  <2>2. \A p : Pipes(p) => Pipes(p)'
    BY <2>1, <1>1 DEF Pipes
  <2> QED BY <2>1, <2>2, <1>0, <1>1, NothingRead
<1>4. CASE ParentWrites /\ pc = "exited"
  <2>1. inp' = inp /\ unsent' = <<>> /\ pc' = "exited"
    BY <1>1, <1>4 DEF ParentWrites
  <2> QED BY <2>1, <1>0, <1>1, NothingRead
<1>5. CASE ParentWrites /\ pc # "exited"
  <2>1. unsent # <<>> /\ ~closed /\ closed' = closed /\ inp' = Append(inp, Head(unsent)) /\ unsent' = Tail(unsent)
    BY <1>5 DEF ParentWrites
  <2>2. /\ Head(unsent) = unsent[1] /\ Head(unsent) \in Units /\ Tail(unsent) \in Seq(Units)
        /\ Len(Tail(unsent)) = Len(unsent) - 1 /\ Len(unsent) > 0
        /\ \A i \in 1 .. Len(Tail(unsent)) : Tail(unsent)[i] = unsent[i + 1]
    BY <2>1, <1>0, HeadTailProperties, EmptySeq
  <2>3. /\ inp' \in Seq(Units) /\ Len(inp') = Len(inp) + 1
        /\ inp'[Len(inp) + 1] = unsent[1] /\ \A i \in 1 .. Len(inp) : inp'[i] = inp[i]
    BY <2>1, <2>2, <1>0, AppendProperties
  <2>4. ASSUME NEW p, Pipes(p) PROVE Pipes(p)'
    <3>1. /\ p \in Nat /\ p + Len(inp) + Len(unsent) = Len(stream)
          /\ \A i \in 1 .. Len(inp) : inp[i] = stream[p + i]
          /\ \A i \in 1 .. Len(unsent) : unsent[i] = stream[p + Len(inp) + i]
      BY <2>1, <2>4 DEF Pipes
    <3>2. p + Len(inp') <= Len(stream) /\ p + Len(inp') + Len(unsent') = Len(stream)
      BY <3>1, <2>1, <2>2, <2>3, <1>0
    <3>3. ASSUME NEW i \in 1 .. Len(inp') PROVE inp'[i] = stream[p + i]
      <4>1. CASE i \in 1 .. Len(inp)
        BY <4>1, <3>1, <2>3
      <4>2. CASE i = Len(inp) + 1
        <5>1. 1 \in 1 .. Len(unsent) /\ p + i = p + Len(inp) + 1
          BY <4>2, <3>1, <2>2, <1>0
        <5> QED BY <5>1, <4>2, <3>1, <2>3
      <4> QED BY <4>1, <4>2, <2>3, <1>0
    <3>4. ASSUME NEW i \in 1 .. Len(unsent') PROVE unsent'[i] = stream[p + Len(inp') + i]
      <4>1. i \in Nat /\ i + 1 \in 1 .. Len(unsent) /\ unsent'[i] = unsent[i + 1]
        BY <2>1, <2>2, <1>0
      <4>2. p + Len(inp) + (i + 1) = p + Len(inp') + i
        BY <4>1, <3>1, <2>3, <1>0
      <4> QED BY <4>1, <4>2, <3>1
    <3> QED BY <3>1, <3>2, <3>3, <3>4, <1>1 DEF Pipes
  <2> QED BY <2>1, <2>2, <2>3, <2>4, <1>1, NothingRead
<1> QED BY <1>2, <1>3, <1>4, <1>5

\* n units are taken out of the pipe.
LEMMA Taken ==
  ASSUME InputTypes, NEW p, Pipes(p), NEW n \in 0 .. Len(inp),
         inp' = SubSeq(inp, n + 1, Len(inp)), UNCHANGED <<stream, unsent, closed>>
  PROVE  /\ inp' \in Seq(Units) /\ Pipes(p + n)'
         /\ \A i \in 1 .. n : SubSeq(inp, 1, n)[i] = stream[p + i]
         /\ SubSeq(inp, 1, n) \in Seq(Units) /\ Len(SubSeq(inp, 1, n)) = n
<1>0. inp \in Seq(Units) /\ Len(inp) \in Nat /\ Len(stream) \in Nat /\ Len(unsent) \in Nat /\ p \in Nat
  BY LenProperties DEF InputTypes, Pipes
<1>1. /\ inp' \in Seq(Units) /\ Len(inp') = Len(inp) - n
      /\ \A i \in 1 .. Len(inp) - n : inp'[i] = inp[n + i]
  BY <1>0, SubSeqProperties
<1>2. /\ SubSeq(inp, 1, n) \in Seq(Units) /\ Len(SubSeq(inp, 1, n)) = n
      /\ \A i \in 1 .. n : SubSeq(inp, 1, n)[i] = inp[i]
  BY <1>0, SubSeqProperties
<1>3. \A i \in 1 .. Len(inp) : inp[i] = stream[p + i]
  BY DEF Pipes
<1>4. \A i \in 1 .. n : SubSeq(inp, 1, n)[i] = stream[p + i]
  BY <1>0, <1>2, <1>3
<1>5. ASSUME NEW i \in 1 .. Len(inp') PROVE inp'[i] = stream[p + n + i]
  <2>1. i \in Nat /\ n + i \in 1 .. Len(inp) /\ inp'[i] = inp[n + i] /\ p + (n + i) = p + n + i
    BY <1>0, <1>1
  <2> QED BY <2>1, <1>3
<1>6. p + n \in Nat /\ p + n + Len(inp') = p + Len(inp)
  <2>1. n \in Nat /\ Len(inp') = Len(inp) - n
    BY <1>0, <1>1
  <2>2. \A x, y, z \in Nat : x + y \in Nat /\ x + y + (z - y) = x + z
    OBVIOUS
  <2>3. p + n \in Nat /\ p + n + (Len(inp) - n) = p + Len(inp)
    BY <1>0, <2>1, <2>2
  <2> QED BY <2>1, <2>3, Zenon
<1>7. Pipes(p + n)'
  BY <1>5, <1>6 DEF Pipes
<1> QED BY <1>1, <1>2, <1>4, <1>7

\* The length of a frame is read: another frame has begun, or the input ends.
LEMMA LengthRead ==
  ASSUME FrameInv, ReadLength
  PROVE  FrameInv'
<1>0. /\ pc = "read" /\ framing /\ ad.current_frame_remaining = 0
      /\ UNCHANGED <<framing, stream, unsent, closed, got>>
  BY DEF ReadLength, input, parent
<1>1. CASE Len(inp) < HeaderLen
  <2>1. pc' = "result" /\ UNCHANGED <<ad, inp>>
    BY <1>1 DEF ReadLength, Fail
  <2>2. inp \in Seq(Units) /\ unsent \in Seq(Units)
    BY DEF FrameInv, InputTypes
  <2> QED BY <2>1, <2>2, <1>0, NothingRead
<1>2. CASE ~(Len(inp) < HeaderLen)
  <2> DEFINE len == inp[1] * Base + inp[2]
  <2>1. /\ inp' = SubSeq(inp, 3, Len(inp))
        /\ ad' = [current_frame_remaining |-> len, is_eof |-> len = 0]
        /\ pc' = IF len = 0 THEN "work" ELSE "read"
    BY <1>2 DEF ReadLength, HeaderLen
  <2>2. /\ InputTypes /\ Len(inp) \in Nat /\ 2 \in 0 .. Len(inp) /\ Len(stream) \in Nat /\ Len(got) \in Nat
        /\ DOMAIN stream = 1 .. Len(stream)
        /\ ad \in [current_frame_remaining : Nat, is_eof : BOOLEAN]
    BY <1>2, LenProperties DEF FrameInv, InputTypes, HeaderLen
  <2>3. PICK p, V, is : Pipes(p) /\ Begun(p, V) /\ Given(p, V, is)
    BY <1>0 DEF FrameInv, Reading, Place
  <2>4. p \in Nat /\ p + Len(inp) <= Len(stream) /\ inp[1] = stream[p + 1] /\ inp[2] = stream[p + 2]
    BY <2>2, <2>3 DEF Pipes
  <2>5. Pipes(p + 2)' /\ inp' \in Seq(Units)
    BY <2>1, <2>2, <2>3, <1>0, Taken
  <2> DEFINE h == p + 1
  <2>6. h \in Nat \ {0} /\ h + 1 <= Len(stream) /\ h = NextFrame(p) /\ h \in DOMAIN stream
    BY <1>0, <2>2, <2>4 DEF NextFrame
  <2>7. Length(h) = len /\ Length(h) \in Nat /\ Behind(h) = h + 2 + Length(h) /\ h \in Starts /\ HasLength(h)
    <3>1. h + 1 = p + 2
      BY <2>4
    <3>2. Length(h) = len
      BY <3>1, <2>4 DEF Length
    <3>3. Length(h) \in Nat /\ Behind(h) = h + 2 + Length(h)
      BY <2>2, <2>6, Lengths
    <3>4. h \in Starts
      BY <2>3, <2>6 DEF Begun
    <3> QED BY <3>2, <3>3, <3>4, <2>6 DEF HasLength
  <2> HIDE DEF len, h
  <2>8. InputTypes'
    <3>1. ad' \in [current_frame_remaining : Nat, is_eof : BOOLEAN]
      BY <2>1, <2>7
    <3> QED BY <3>1, <2>2, <2>5, <1>0 DEF InputTypes
  <2>9. CASE len = 0
    <3>1. h \in Ends(Starts)
      BY <2>7, <2>9 DEF Ends
    <3>2. Data(Starts, Ends(Starts)) \subseteq 1 .. p
      <4> SUFFICES ASSUME NEW i \in Data(Starts, Ends(Starts)) PROVE i \in 1 .. p
        OBVIOUS
      <4>1. i \in 1 .. Len(stream) /\ i < p + 1
        BY <3>1, <2>2 DEF Data, h
      <4> QED BY <4>1, <2>2, <2>4
    <3>3. got = Payload.units /\ IsPrefix(got, Payload.units)
      BY <3>2, <2>2, <2>3, ReadSoFar
    <3>4. FramedExact'
      BY <3>3, <1>0, SameFrames DEF FramedExact
    <3>5. ad'.is_eof /\ pc' = "work"
      BY <2>1, <2>9
    <3> QED BY <3>4, <3>5, <2>8 DEF FrameInv, Reading
  <2>10. CASE len # 0
    <3> DEFINE W == V \cup {h}
    <3>1. ~ad'.is_eof /\ ad'.current_frame_remaining = len /\ pc' = "read" /\ len \in Nat \ {0}
      BY <2>1, <2>7, <2>10
    <3>2. NextFrame(p + 2)' = Behind(h) /\ Behind(h) \in Nat
      <4>1. NextFrame(p + 2)' = (p + 2) + 1 + len
        BY <3>1 DEF NextFrame
      <4> QED BY <4>1, <3>1, <2>4, <2>7 DEF h
    <3>3. Begun(p + 2, W)'
      <4>1. W \subseteq Starts'
        BY <2>3, <2>7, <1>0, SameFrames DEF Begun
      <4>2. ASSUME NEW v \in W
            PROVE  /\ v + 1 <= p + 2 /\ Length(v) > 0
                   /\ Behind(v) \in W \cup {Behind(h)}
        <5>1. CASE v = h
          BY <5>1, <2>4, <2>7, <3>1 DEF h
        <5>2. CASE v \in V
          <6>1. v + 1 <= p /\ Length(v) > 0 /\ Behind(v) \in V \cup {h} /\ v \in Starts
            BY <5>2, <2>3, <2>6 DEF Begun
          <6>2. v \in Nat
            BY <6>1, <2>2 DEF Starts
          <6> QED BY <6>1, <6>2, <2>4
        <5> QED BY <5>1, <5>2
      <4>3. 1 \in W
        BY <2>3, <2>6 DEF Begun
      <4>4. Behind(h) \in DOMAIN stream => Behind(h) \in Starts
        BY <2>7, <3>1, StartsClosed
      <4> HIDE DEF W
      <4> QED BY <4>1, <4>2, <4>3, <4>4, <3>2, <1>0, SameFrames DEF Begun
    <3>4. Given(p + 2, W, is)'
      <4>1. /\ is \in [1 .. Len(got) -> 1 .. p]
            /\ \A j, k \in 1 .. Len(got) : j < k => is[j] < is[k]
            /\ \A k \in 1 .. Len(got) : got[k] = stream[is[k]]
            /\ \A i \in 1 .. p : (\E k \in 1 .. Len(got) : is[k] = i) <=> ~Header(V, i)
        BY <2>3 DEF Given, Lists
      <4>2. is \in [1 .. Len(got) -> 1 .. p + 2]
        BY <4>1, <2>2, <2>4
      <4>3. ASSUME NEW i \in 1 .. p + 2
            PROVE  (\E k \in 1 .. Len(got) : is[k] = i) <=> ~Header(W, i)
        <5>1. CASE i \in 1 .. p
          <6>1. i \notin {h, h + 1}
            BY <5>1, <2>4 DEF h
          <6>2. Header(W, i) <=> Header(V, i)
            BY <6>1 DEF Header
          <6> QED BY <6>2, <5>1, <4>1
        <5>2. CASE i \in {h, h + 1}
          <6>1. Header(W, i)
            BY <5>2 DEF Header
          <6>2. i \notin 1 .. p
            BY <5>2, <2>4 DEF h
          <6> QED BY <6>1, <6>2, <4>1
        <5>3. i \in 1 .. p \/ i \in {h, h + 1}
          BY <2>4 DEF h
        <5> QED BY <5>1, <5>2, <5>3
      <4> HIDE DEF W
      <4> QED BY <4>1, <4>2, <4>3, <1>0 DEF Given, Lists, Header
    <3>5. Place'
      BY <2>5, <3>3, <3>4 DEF Place
    <3>6. FramedExact'
      <4>1. IsPrefix(got, Payload.units)
        BY <2>2, <2>3, ReadSoFar
      <4> QED BY <4>1, <3>1, <1>0, SameFrames DEF FramedExact
    <3> QED BY <3>1, <3>5, <3>6, <2>8 DEF FrameInv
  <2> QED BY <2>9, <2>10
<1> QED BY <1>1, <1>2

\* A part of a frame is read, at most to its end.
LEMMA FrameRead ==
  ASSUME FrameInv, ReadFrame
  PROVE  FrameInv'
<1>0. /\ pc = "read" /\ framing /\ ad.current_frame_remaining > 0
      /\ UNCHANGED <<framing, stream, unsent, closed>>
  BY DEF ReadFrame, input, parent
<1>1. /\ InputTypes /\ Len(inp) \in Nat /\ Len(stream) \in Nat /\ Len(got) \in Nat
      /\ ad.current_frame_remaining \in Nat
      /\ got \in Seq(Units) /\ inp \in Seq(Units) /\ unsent \in Seq(Units) /\ BufSize \in Nat \ {0}
      /\ ad \in [current_frame_remaining : Nat, is_eof : BOOLEAN] /\ ad.is_eof = FALSE
  BY <1>0, PortAssumption, LenProperties DEF FrameInv, InputTypes
<1>r. PICK r \in Nat : r = ad.current_frame_remaining
  BY <1>1
<1>n. PICK n \in Nat : n = Smaller(AmountToRead, Len(inp))
  BY <1>0, <1>1 DEF Smaller, AmountToRead
<1>m. PICK m \in Nat : m = Len(got)
  BY <1>1
<1>2. n \in 0 .. Len(inp) /\ n <= r
  BY <1>0, <1>1, <1>r, <1>n DEF Smaller, AmountToRead
<1>3. IF n = 0 THEN Fail /\ UNCHANGED <<ad, inp, got>>
      ELSE /\ got' = got \o SubSeq(inp, 1, n) /\ inp' = SubSeq(inp, n + 1, Len(inp))
           /\ ad' = [ad EXCEPT !.current_frame_remaining = IF n < r THEN r - n ELSE 0] /\ pc' = "work"
  BY <1>r, <1>n DEF ReadFrame
<1>4. CASE n = 0
  <2>1. pc' = "result" /\ UNCHANGED <<ad, inp, got>>
    BY <1>3, <1>4 DEF Fail
  <2> QED BY <2>1, <1>0, <1>1, NothingRead
<1>5. CASE n # 0
  <2>1. /\ got' = got \o SubSeq(inp, 1, n) /\ inp' = SubSeq(inp, n + 1, Len(inp)) /\ pc' = "work"
        /\ ad' \in [current_frame_remaining : Nat, is_eof : BOOLEAN] /\ ad'.is_eof = FALSE
        /\ ad'.current_frame_remaining = r - n
    <3>1. r - n \in Nat /\ (IF n < r THEN r - n ELSE 0) = r - n
      BY <1>1, <1>2
    <3>2. ad' = [ad EXCEPT !.current_frame_remaining = r - n]
      BY <3>1, <1>3, <1>5
    <3> QED BY <3>1, <3>2, <1>1, <1>3, <1>5
  <2>2. PICK p, V, is : Pipes(p) /\ Begun(p, V) /\ Given(p, V, is)
    BY <1>0, <1>1 DEF FrameInv, Reading, Place
  <2>3. /\ inp' \in Seq(Units) /\ Pipes(p + n)'
        /\ \A i \in 1 .. n : SubSeq(inp, 1, n)[i] = stream[p + i]
        /\ SubSeq(inp, 1, n) \in Seq(Units) /\ Len(SubSeq(inp, 1, n)) = n
    <3>1. InputTypes /\ Pipes(p) /\ n \in 0 .. Len(inp) /\ inp' = SubSeq(inp, n + 1, Len(inp))
          /\ UNCHANGED <<stream, unsent, closed>>
      BY <2>1, <2>2, <1>0, <1>1, <1>2
    <3> QED BY <3>1, Taken
  <2> DEFINE js == [k \in 1 .. m + n |-> IF k <= m THEN is[k] ELSE p + (k - m)]
  <2>4. p \in Nat /\ n \in Nat /\ m \in Nat
    BY <2>2 DEF Pipes
  <2>5. /\ got' \in Seq(Units) /\ Len(got') = m + n
        /\ \A k \in 1 .. m : got'[k] = got[k]
        /\ \A k \in m + 1 .. m + n : got'[k] = SubSeq(inp, 1, n)[k - m]
    BY <2>1, <2>3, <1>1, <1>m, ConcatProperties
  <2>6. InputTypes'
    BY <2>1, <2>3, <2>5, <1>0, <1>1 DEF InputTypes
  <2>7. NextFrame(p + n)' = NextFrame(p)
    <3>1. p + n + 1 + (r - n) = p + 1 + r
      BY <2>4, <1>1
    <3> QED BY <3>1, <2>1, <1>r DEF NextFrame
  <2>8. Begun(p + n, V)'
    <3>1. \A v \in V : v \in Nat /\ v + 1 <= p + n
      <4>1. \A v \in V : v \in DOMAIN stream /\ v + 1 <= p
        BY <2>2 DEF Begun, Starts
      <4>2. DOMAIN stream \subseteq Nat
        BY <1>1, LenProperties DEF InputTypes
      <4> QED BY <4>1, <4>2, <2>4
    <3>2. /\ Starts' = Starts /\ DOMAIN stream' = DOMAIN stream
          /\ \A i : Length(i)' = Length(i) /\ Behind(i)' = Behind(i)
      BY <1>0, SameFrames
    <3> QED BY <3>1, <3>2, <2>2, <2>7 DEF Begun
  <2>9. /\ is \in [1 .. m -> 1 .. p]
        /\ \A j, k \in 1 .. m : j < k => is[j] < is[k]
        /\ \A k \in 1 .. m : got[k] = stream[is[k]]
        /\ \A i \in 1 .. p : (\E k \in 1 .. m : is[k] = i) <=> ~Header(V, i)
    BY <2>2, <1>m DEF Given, Lists
  <2>10. \A k \in 1 .. m : js[k] = is[k] /\ is[k] \in 1 .. p /\ k \in 1 .. m + n
    BY <2>4, <2>9
  <2>11. \A k \in m + 1 .. m + n : js[k] = p + (k - m) /\ k \in 1 .. m + n
    BY <2>4
  <2>12. \A k \in 1 .. m + n : k \in 1 .. m \/ k \in m + 1 .. m + n
    BY <2>4
  <2>a. js = [k \in 1 .. m + n |-> js[k]]
    OBVIOUS
  <2> HIDE DEF js
  <2>13. js \in [1 .. m + n -> 1 .. p + n]
    <3>1. ASSUME NEW k \in 1 .. m + n PROVE js[k] \in 1 .. p + n
      <4>1. CASE k \in 1 .. m
        <5>1. js[k] \in 1 .. p
          BY <4>1, <2>10
        <5> QED BY <5>1, <2>4
      <4>2. CASE k \in m + 1 .. m + n
        <5>1. js[k] = p + (k - m)
          BY <4>2, <2>11
        <5> QED BY <5>1, <4>2, <2>4
      <4> QED BY <4>1, <4>2, <2>12
    <3> QED BY <3>1, <2>a
  <2>14. ASSUME NEW j \in 1 .. m + n, NEW k \in 1 .. m + n, j < k PROVE js[j] < js[k]
    <3>1. CASE k \in 1 .. m
      <4>1. j \in 1 .. m
        BY <3>1, <2>4, <2>14
      <4> QED BY <4>1, <3>1, <2>9, <2>10, <2>14
    <3>2. CASE k \in m + 1 .. m + n /\ j \in 1 .. m
      <4>1. js[j] \in 1 .. p /\ js[k] = p + (k - m) /\ k - m >= 1
        BY <3>2, <2>4, <2>10, <2>11
      <4> QED BY <4>1, <2>4
    <3>3. CASE k \in m + 1 .. m + n /\ j \in m + 1 .. m + n
      BY <3>3, <2>4, <2>11, <2>14
    <3> QED BY <3>1, <3>2, <3>3, <2>12
  <2>15. ASSUME NEW k \in 1 .. m + n PROVE got'[k] = stream[js[k]]
    <3>1. CASE k \in 1 .. m
      BY <3>1, <2>5, <2>9, <2>10
    <3>2. CASE k \in m + 1 .. m + n
      <4>1. k - m \in 1 .. n
        BY <3>2, <2>4
      <4> QED BY <4>1, <3>2, <2>3, <2>5, <2>11
    <3> QED BY <3>1, <3>2, <2>12
  <2>16. ASSUME NEW i \in 1 .. p + n
         PROVE  (\E k \in 1 .. m + n : js[k] = i) <=> ~Header(V, i)
    <3>1. CASE i \in 1 .. p
      <4>1. ASSUME NEW k \in m + 1 .. m + n PROVE js[k] # i
        BY <3>1, <2>4, <2>11
      <4>2. (\E k \in 1 .. m + n : js[k] = i) <=> \E k \in 1 .. m : is[k] = i
        BY <4>1, <2>10, <2>12
      <4> QED BY <4>2, <3>1, <2>9
    <3>2. CASE i \in p + 1 .. p + n
      <4>1. m + (i - p) \in 1 .. m + n /\ m + (i - p) \in m + 1 .. m + n
        BY <3>2, <2>4
      <4>2. js[m + (i - p)] = i
        BY <4>1, <3>2, <2>4, <2>11
      <4>3. ~Header(V, i)
        <5>1. \A v \in V : v \in DOMAIN stream /\ v + 1 <= p
          BY <2>2 DEF Begun, Starts
        <5>2. DOMAIN stream \subseteq Nat
          BY <1>1, LenProperties DEF InputTypes
        <5> QED BY <5>1, <5>2, <3>2, <2>4 DEF Header
      <4> QED BY <4>1, <4>2, <4>3
    <3>3. i \in 1 .. p \/ i \in p + 1 .. p + n
      BY <2>4
    <3> QED BY <3>1, <3>2, <3>3
  <2>17. Given(p + n, V, js)'
    <3>1. stream' = stream
      BY <1>0
    <3>2. Len(got') = m + n
      BY <2>5
    <3> QED BY <3>1, <3>2, <2>13, <2>14, <2>15, <2>16 DEF Given, Lists, Header
  <2>18. Place'
    BY <2>3, <2>8, <2>17 DEF Place
  <2>19. IsPrefix(got', Payload.units)
    <3>1. p + n \in Nat /\ p + n < NextFrame(p) /\ p + n <= Len(stream)
      BY <1>1, <1>2, <1>r, <1>5, <2>2, <2>4 DEF Pipes, NextFrame
    <3>2. Lists(got', p + n, V, js)
      BY <2>5, <2>13, <2>14, <2>15, <2>16 DEF Lists
    <3> QED BY <3>1, <3>2, <2>2, <2>5, <1>1, GivenIsPrefix
  <2> QED BY <2>1, <2>6, <2>18, <2>19, <1>0, SameFrames DEF FrameInv, FramedExact
<1> QED BY <1>4, <1>5

\* The other steps of fwup read nothing of the stream, or are past reading.
LEMMA FwupFrames ==
  ASSUME FrameInv, Fwup
  PROVE  FrameInv'
<1>0. stream \in Seq(Units) /\ inp \in Seq(Units) /\ unsent \in Seq(Units) /\ (pc = "read" => ~ad.is_eof)
  BY DEF FrameInv, InputTypes
<1>1. CASE ReadLength
  BY <1>1, LengthRead
<1>2. CASE ReadFrame
  BY <1>2, FrameRead
<1>3. CASE normal_read
  <2>1. /\ ~framing /\ UNCHANGED <<framing, stream, unsent>> /\ pc' = "work"
        /\ \/ inp' = inp /\ got' = got /\ ad' = [ad EXCEPT !.is_eof = TRUE]
           \/ /\ ad' = ad
              /\ \E n \in 1 .. Smaller(BufSize, Len(inp)) :
                   got' = got \o SubSeq(inp, 1, n) /\ inp' = SubSeq(inp, n + 1, Len(inp))
    BY <1>3 DEF normal_read, AtEnd, input, parent
  <2>2. ASSUME NEW n \in 1 .. Smaller(BufSize, Len(inp)),
               got' = got \o SubSeq(inp, 1, n), inp' = SubSeq(inp, n + 1, Len(inp))
        PROVE  got' \in Seq(Units) /\ inp' \in Seq(Units)
    <3>1. n \in 1 .. Len(inp) /\ Len(inp) \in Nat
      BY <1>0, PortAssumption, LenProperties DEF Smaller
    <3>2. /\ \A i \in 1 .. n : inp[i] \in Units
          /\ \A i \in n + 1 .. Len(inp) : inp[i] \in Units
      BY <1>0, <3>1, ElementOfSeq
    <3>3. SubSeq(inp, 1, n) \in Seq(Units) /\ SubSeq(inp, n + 1, Len(inp)) \in Seq(Units)
      BY <3>1, <3>2, SubSeqProperties
    <3>4. got \in Seq(Units)
      BY DEF FrameInv, InputTypes
    <3> QED BY <2>2, <3>3, <3>4, ConcatProperties
  <2>3. InputTypes'
    <3>1. ad' \in [current_frame_remaining : Nat, is_eof : BOOLEAN]
      BY <2>1 DEF FrameInv, InputTypes
    <3>2. got' \in Seq(Units) /\ inp' \in Seq(Units)
      BY <2>1, <2>2 DEF FrameInv, InputTypes
    <3> QED BY <3>1, <3>2, <2>1, <1>0 DEF InputTypes
  <2> QED BY <2>1, <2>3 DEF FrameInv, FramedExact
<1>4. CASE WorkOn \/ Read
  <2>1. /\ pc = "work" /\ pc' \in {"work", "read"} /\ (pc' = "read" => ~ad.is_eof)
        /\ UNCHANGED <<framing, stream, ad, got, inp, unsent, closed>>
    BY <1>4 DEF WorkOn, Read, input, parent
  <2>2. \A p : Pipes(p) => Pipes(p)'
    BY <2>1 DEF Pipes
  <2> QED BY <2>1, <2>2, <1>0, NothingRead
<1>5. CASE Succeed \/ GiveUp \/ Result \/ SendCtrlZ \/ Drain
  <2>1. UNCHANGED <<framing, stream, ad, got, unsent>> /\ inp' \in {inp, <<>>}
    BY <1>5 DEF Succeed, GiveUp, Result, SendCtrlZ, Drain, input, parent
  <2>2. pc' \in {"result", "handshake", "drain", "exited"}
    BY <1>5 DEF Succeed, GiveUp, Fail, Result, SendCtrlZ, Drain
  <2>3. inp' \in Seq(Units)
    <3>1. <<>> \in Seq(Units)
      OBVIOUS
    <3> QED BY <3>1, <2>1, <1>0
  <2> QED BY <2>1, <2>2, <2>3, <1>0, NothingRead
<1> QED BY <1>1, <1>2, <1>3, <1>4, <1>5 DEF Fwup

\* With --framing libarchive is given the payload of the frames, however the
\* parent writes them, the pipe holds them and the buffer cuts them up, and all
\* of it if it is told that the input ends: for every stream, also one that
\* breaks off, every size of unit, buffer and pipe.
THEOREM FramesAreExact == Spec => []FramedExact
<1>1. FrameInv /\ [Next]_vars => FrameInv'
  <2> SUFFICES ASSUME FrameInv, [Next]_vars PROVE FrameInv'
    OBVIOUS
  <2>1. CASE Over \/ UNCHANGED vars
    <3>1. UNCHANGED <<framing, stream, ad, got, inp, unsent, closed, pc>>
      BY <2>1 DEF Over, vars, input, parent
    <3>2. \A p : Pipes(p) => Pipes(p)'
      BY <3>1 DEF Pipes
    <3>3. inp \in Seq(Units) /\ unsent \in Seq(Units) /\ (pc = "read" => ~ad.is_eof)
      BY DEF FrameInv, InputTypes
    <3> QED BY <3>1, <3>2, <3>3, NothingRead
  <2> QED BY <2>1, ParentFrames, FwupFrames DEF Next
<1>2. FrameInv => FramedExact
  BY DEF FrameInv
<1> QED BY <1>1, <1>2, FrameInit, PTL DEF Spec

=============================================================================
