------------------------ MODULE DetachedTerminalProofs ------------------------
(***************************************************************************)
(* Proofs about DetachedTerminal, for every capacity of the queues and of  *)
(* the history, and every length of the output.                            *)
(*                                                                         *)
(* Events flow from the queue through the handler that serves the client,  *)
(* the wire, the events that wait for the renderer and the batch it is     *)
(* given.  A sign is an event that makes the renderer look at its cursor   *)
(* again: a resync, a connection, or data that ends where the published    *)
(* output ends.  The invariant says that the last event of that stream,    *)
(* the exit apart, is a sign, unless the state has one of another kind.    *)
(***************************************************************************)
EXTENDS DetachedTerminal, TLAPS

(* What an event can be when n chunks have been published. *)
Upto(n) == [name : {"data"}, from : 0 .. n, to : 0 .. n]
             \cup [name : {"resync", "connected", "disconnected", "exit"}]

Handling(n) == [step : {"gone", "idle"}]
                 \cup [step : {"taken", "cleared"}, event : Upto(n)]

Answers(s, e) == [call : {"none", "asked", "failed"}]
                   \cup [call : {"answered"}, start : 0 .. s, end : 0 .. e]

Typed ==
  /\ terminal \in {"running", "exiting", "exited", "stopped", "closed"}
  /\ end \in Offsets /\ start \in 0 .. end /\ published \in 0 .. end
  /\ publisher \in {"idle", "draining", "receiving"}
  /\ queue \in Seq(Upto(published)) /\ Len(queue) <= QueueLimit
  /\ suspended \in BOOLEAN
  /\ serving \in Handling(published) /\ stale \in Handling(published)
  /\ wire \in Seq(Upto(published)) /\ Len(wire) <= WireLimit
  /\ up \in BOOLEAN
  /\ ready \in BOOLEAN
  /\ pending \in Seq(Upto(published)) /\ Len(pending) <= PendingLimit
  /\ batch \in Seq(Upto(published))
  /\ page \in {"loading", "replaying", "mounted"}
  /\ replay \in Answers(start, end)
  /\ cursor \in 0 .. end
  /\ skipped \in SUBSET Offsets /\ twice \in SUBSET Offsets
  /\ missed \in Offsets
  /\ faults \in 0 .. MaxFaults

Sign(ev, n) == ev.name \in {"resync", "connected"} \/ (ev.name = "data" /\ ev.to >= n)

(* The last event of s, the exit apart, is a sign; there is no other event. *)
Tells(s, n) == \E i \in 1 .. Len(s) :
                 Sign(s[i], n) /\ \A j \in i + 1 .. Len(s) : s[j] = Exited
Mute(s) == \A i \in 1 .. Len(s) : s[i] = Exited

Carried(h) == IF h.step \in {"taken", "cleared"} THEN <<h.event>> ELSE <<>>

Chain ==
  \/ Tells(queue, published)
  \/ Mute(queue) /\
     \/ Tells(Carried(serving), published)
     \/ Mute(Carried(serving)) /\
        \/ Tells(wire, published)
        \/ Mute(wire) /\ (\/ Tells(pending, published)
                          \/ Mute(pending) /\ Tells(batch, published))

(* The signs that are not events of the stream, and output that needs none. *)
Otherwise ==
  \/ publisher # "idle" \/ ~up \/ page = "loading"
  \/ replay.call \in {"asked", "failed"}
  \/ replay.call = "answered" /\ replay.end >= published
  \/ Tells(Carried(stale), published)
  \/ published <= missed \/ published <= cursor

Signed == Otherwise \/ Chain

QueueSigned == Mute(queue) \/ Tells(queue, published)

Waits(h) == h.step = "taken" /\ h.event = Resync

(* The flag is never left behind without its resync, unless that was lost. *)
ResyncComes == suspended =>
  \/ queue = <<Resync>>
  \/ queue = <<>> /\ (\/ Waits(serving) \/ Waits(stale)
                      \/ missed >= MaxOutput \/ cursor >= MaxOutput)

(* The reader has yet to offer the exit. *)
Reading == terminal \in {"running", "exiting", "stopped"}

(* There is one exit event. *)
NoExit(s) == \A i \in 1 .. Len(s) : s[i] # Exited
Once(s) == \A i, j \in 1 .. Len(s) : s[i] = Exited /\ s[j] = Exited => i = j

ExitOnce ==
  /\ Reading =>
       NoExit(queue) /\ NoExit(Carried(serving)) /\ NoExit(wire) /\ NoExit(pending)
  /\ NoExit(queue) \/ (/\ Once(queue) /\ NoExit(Carried(serving))
                       /\ NoExit(wire) /\ NoExit(pending))
  /\ NoExit(Carried(serving)) \/ (NoExit(wire) /\ NoExit(pending))
  /\ Once(wire)
  /\ NoExit(wire) \/ NoExit(pending)

Connections ==
  /\ ~up => serving = Gone
  /\ ready => pending = <<>> /\ batch = <<>>
  /\ publisher # "idle" => ~suspended
  /\ page # "mounted" => ~ready /\ batch = <<>>
  /\ page = "loading" => replay = NoReplay

IndInv ==
  /\ Typed
  /\ Connections
  /\ QueueSigned
  /\ ResyncComes
  /\ Signed
  /\ ExitOnce
  /\ ShownOnce
-----------------------------------------------------------------------------
(* Events, handlers and answers stay typed as output is added. *)
LEMMA UptoGrows ==
  ASSUME NEW m \in Nat, NEW n \in Nat, m <= n
  PROVE  Upto(m) \subseteq Upto(n) /\ Handling(m) \subseteq Handling(n)
<1>1. 0 .. m \subseteq 0 .. n
  OBVIOUS
<1>2. Upto(m) \subseteq Upto(n)
  BY <1>1 DEF Upto
<1> QED
  BY <1>2 DEF Handling

LEMMA SeqGrows ==
  ASSUME NEW m \in Nat, NEW n \in Nat, m <= n, NEW s \in Seq(Upto(m))
  PROVE  s \in Seq(Upto(n))
BY UptoGrows

LEMMA EventNames ==
  /\ Exited.name = "exit" /\ Resync.name = "resync" /\ Connected.name = "connected"
  /\ Exited # Resync
  /\ \A n \in Nat : Exited \in Upto(n) /\ Resync \in Upto(n) /\ Connected \in Upto(n)
  /\ \A n \in Nat : Sign(Resync, n) /\ Sign(Connected, n)
  /\ \A n \in Nat : ~ Sign(Exited, n)
  /\ Disconnected # Exited /\ \A n \in Nat : Disconnected \in Upto(n)
BY DEF Exited, Resync, Connected, Disconnected, Upto, Sign

LEMMA DataEvent ==
  ASSUME NEW a \in Nat, NEW b \in Nat, a <= b
  PROVE  Data(a, b) \in Upto(b) /\ Sign(Data(a, b), b) /\ Data(a, b) # Exited
BY DEF Data, Upto, Sign, Exited

(* Sequences of events, when one is appended or taken off. *)
LEMMA AppendFacts ==
  ASSUME NEW S, NEW s \in Seq(S), NEW ev \in S, NEW n \in Nat
  PROVE  /\ Append(s, ev) \in Seq(S)
         /\ Mute(s) /\ ev = Exited => Mute(Append(s, ev))
         /\ Sign(ev, n) => Tells(Append(s, ev), n)
         /\ Tells(s, n) /\ ev = Exited => Tells(Append(s, ev), n)
         /\ NoExit(s) /\ ev # Exited => NoExit(Append(s, ev))
         /\ NoExit(s) => Once(Append(s, ev))
         /\ Once(s) /\ ev # Exited => Once(Append(s, ev))
<1> DEFINE t == Append(s, ev)
<1>1. /\ t \in Seq(S) /\ Len(t) = Len(s) + 1
      /\ t[Len(s) + 1] = ev /\ \A i \in 1 .. Len(s) : t[i] = s[i]
  OBVIOUS
<1>2. Len(s) \in Nat
  OBVIOUS
<1> HIDE DEF t
<1>3. Mute(s) /\ ev = Exited => Mute(t)
  BY <1>1, <1>2 DEF Mute
<1>4. Sign(ev, n) => Tells(t, n)
  BY <1>1, <1>2 DEF Tells
<1>5. ASSUME Tells(s, n), ev = Exited PROVE Tells(t, n)
  <2>1. PICK i \in 1 .. Len(s) : Sign(s[i], n) /\ \A j \in i + 1 .. Len(s) : s[j] = Exited
    BY <1>5 DEF Tells
  <2>2. i \in 1 .. Len(t) /\ Sign(t[i], n)
    BY <2>1, <1>1, <1>2
  <2>3. \A j \in i + 1 .. Len(t) : t[j] = Exited
    BY <2>1, <1>1, <1>2, <1>5
  <2> QED
    BY <2>2, <2>3 DEF Tells
<1>6. NoExit(s) /\ ev # Exited => NoExit(t)
  BY <1>1, <1>2 DEF NoExit
<1>7. NoExit(s) => Once(t)
  BY <1>1, <1>2 DEF NoExit, Once
<1>8. Once(s) /\ ev # Exited => Once(t)
  BY <1>1, <1>2 DEF Once
<1> QED
  BY <1>1, <1>3, <1>4, <1>5, <1>6, <1>7, <1>8 DEF t

LEMMA TailFacts ==
  ASSUME NEW S, NEW s \in Seq(S), s # <<>>, NEW n \in Nat
  PROVE  /\ Head(s) \in S /\ Tail(s) \in Seq(S) /\ Len(Tail(s)) = Len(s) - 1
         /\ Mute(s) => Mute(Tail(s)) /\ Head(s) = Exited
         /\ Tells(s, n) => Tells(Tail(s), n) \/ (Sign(Head(s), n) /\ Mute(Tail(s)))
         /\ NoExit(s) => NoExit(Tail(s)) /\ Head(s) # Exited
         /\ Once(s) => Once(Tail(s)) /\ (Head(s) = Exited => NoExit(Tail(s)))
<1> DEFINE t == Tail(s)
<1>1. /\ t \in Seq(S) /\ Len(t) = Len(s) - 1 /\ Head(s) = s[1] /\ Head(s) \in S
      /\ \A i \in 1 .. Len(t) : t[i] = s[i + 1]
  OBVIOUS
<1>2. Len(s) \in Nat \ {0}
  OBVIOUS
<1> HIDE DEF t
<1>3. Mute(s) => Mute(t) /\ Head(s) = Exited
  BY <1>1, <1>2 DEF Mute
<1>4. ASSUME Tells(s, n) PROVE Tells(t, n) \/ (Sign(Head(s), n) /\ Mute(t))
  <2>1. PICK i \in 1 .. Len(s) : Sign(s[i], n) /\ \A j \in i + 1 .. Len(s) : s[j] = Exited
    BY <1>4 DEF Tells
  <2>2. CASE i = 1
    BY <2>1, <2>2, <1>1, <1>2 DEF Mute
  <2>3. CASE i # 1
    <3>1. i - 1 \in 1 .. Len(t) /\ Sign(t[i - 1], n)
      BY <2>1, <2>3, <1>1, <1>2
    <3>2. \A j \in (i - 1) + 1 .. Len(t) : t[j] = Exited
      BY <2>1, <2>3, <1>1, <1>2
    <3> QED
      BY <3>1, <3>2 DEF Tells
  <2> QED
    BY <2>2, <2>3
<1>5. NoExit(s) => NoExit(t) /\ Head(s) # Exited
  BY <1>1, <1>2 DEF NoExit
<1>6. Once(s) => Once(t) /\ (Head(s) = Exited => NoExit(t))
  BY <1>1, <1>2 DEF Once, NoExit
<1> QED
  BY <1>1, <1>3, <1>4, <1>5, <1>6 DEF t

LEMMA ShortFacts ==
  /\ Mute(<<>>) /\ NoExit(<<>>) /\ Once(<<>>) /\ \A n : ~ Tells(<<>>, n)
  /\ \A ev : /\ Once(<<ev>>) /\ (NoExit(<<ev>>) <=> ev # Exited)
             /\ Mute(<<ev>>) <=> ev = Exited
             /\ \A n : Tells(<<ev>>, n) <=> Sign(ev, n)
BY DEF Mute, NoExit, Once, Tells

-----------------------------------------------------------------------------
(* What was thrown away stays accounted for until the cursor is past it. *)
MissedKept ==
  \A n \in Offsets : n <= missed \/ n <= cursor => n <= missed' \/ n <= cursor'

LEMMA Numbers ==
  ASSUME Typed
  PROVE  /\ MaxOutput \in Nat /\ end \in Nat /\ start \in Nat /\ published \in Nat
         /\ cursor \in Nat /\ missed \in Nat
         /\ start <= end /\ published <= end /\ cursor <= end /\ end <= MaxOutput
         /\ missed <= MaxOutput
         /\ published \in Offsets /\ MaxOutput \in Offsets
BY TerminalAssumption DEF Typed, Offsets

LEMMA IgnoredFacts ==
  ASSUME Typed, NEW b \in Offsets, Ignored(b), UNCHANGED cursor
  PROVE  missed' \in Offsets /\ MissedKept /\ (b <= missed' \/ b <= cursor')
BY Numbers DEF Typed, Ignored, MissedKept, Offsets

(* Output written from the cursor on, or from the start of the history. *)
LEMMA WrittenFacts ==
  ASSUME Typed, NEW from \in Nat, NEW to \in 0 .. end,
         cursor <= from, cursor <= to, Written(from, to)
  PROVE  /\ cursor' = to
         /\ missed' \in Offsets /\ MissedKept
         /\ twice' = twice
         /\ skipped' = skipped \cup (cursor + 1 .. from)
BY Numbers DEF Typed, Written, MissedKept, Offsets

LEMMA AskReplayFacts ==
  ASSUME Typed, AskReplay, UNCHANGED cursor
  PROVE  /\ replay' \in Answers(start, end)
         /\ missed' \in Offsets /\ MissedKept
         /\ replay' = replay \/ replay = NoReplay
         /\ \/ replay'.call = "asked"
            \/ replay' = replay /\ (published <= missed' \/ published <= cursor')
<1>1. CASE replay = NoReplay
  BY <1>1, Numbers DEF AskReplay, Answers, MissedKept, Typed
<1>2. CASE replay # NoReplay
  BY <1>2, Numbers, IgnoredFacts DEF AskReplay, Typed
<1> QED
  BY <1>1, <1>2

LEMMA EmitFacts ==
  ASSUME Typed, NEW ev \in Upto(published), Emit(ev)
  PROVE  /\ replay' \in Answers(start, end)
         /\ cursor' \in 0 .. end
         /\ missed' \in Offsets /\ MissedKept
         /\ twice' = twice /\ skipped' = skipped
         /\ replay' = replay \/ replay = NoReplay
         /\ Sign(ev, published) => \/ replay'.call = "asked"
                                   \/ published <= missed' \/ published <= cursor'
<1>1. replay \in Answers(start, end) /\ cursor \in 0 .. end /\ missed \in Offsets
  BY DEF Typed
<1>2. CASE ev.name = "data" /\ Show(ev)
  <2>1. ev.from \in 0 .. published /\ ev.to \in 0 .. published
    BY <1>2 DEF Upto
  <2>2. Sign(ev, published) => ev.to >= published
    BY <1>2 DEF Sign
  <2>3. CASE ev.to <= cursor /\ UNCHANGED <<replay, cursor, history>>
    BY <1>1, <2>1, <2>2, <2>3, Numbers DEF history, MissedKept
  <2>4. CASE ~Follows(ev.from) /\ AskReplay /\ UNCHANGED <<cursor, skipped, twice>>
    BY <1>1, <2>4, AskReplayFacts
  <2>5. CASE /\ ev.to > cursor /\ Follows(ev.from)
             /\ Written(IF ev.from > cursor THEN ev.from ELSE cursor, ev.to)
             /\ UNCHANGED replay
    <3>1. Written(cursor, ev.to)
      BY <2>5, <2>1, Numbers DEF Follows
    <3>2. cursor + 1 .. cursor = {}
      BY Numbers
    <3>3. cursor \in Nat /\ ev.to \in 0 .. end /\ cursor <= ev.to
      BY <2>1, <2>5, Numbers
    <3>4. cursor <= cursor
      BY <3>3
    <3>5. /\ cursor' = ev.to /\ missed' \in Offsets /\ MissedKept /\ twice' = twice
          /\ skipped' = skipped \cup (cursor + 1 .. cursor)
      BY <3>1, <3>3, <3>4, WrittenFacts, Zenon
    <3>6. skipped' = skipped
      BY <3>2, <3>5
    <3> QED
      BY <1>1, <2>1, <2>2, <2>5, <3>3, <3>5, <3>6, Numbers
  <2> QED
    BY <1>2, <2>3, <2>4, <2>5 DEF Show
<1>3. CASE ev.name \in {"resync", "connected"} /\ AskReplay /\ UNCHANGED <<cursor, skipped, twice>>
  BY <1>1, <1>3, AskReplayFacts
<1>4. CASE ev.name \in {"exit", "disconnected"} /\ UNCHANGED <<replay, cursor, history>>
  BY <1>1, <1>4, Numbers DEF history, MissedKept, Sign
<1> QED
  BY <1>2, <1>3, <1>4 DEF Emit

-----------------------------------------------------------------------------
(* Every step keeps the types. *)
LEMMA ReplayTypes ==
  ASSUME NEW s \in Nat, NEW e \in Nat
  PROVE  /\ NoReplay \in Answers(s, e) /\ NoReplay.call = "none"
         /\ [call |-> "asked"] \in Answers(s, e) /\ [call |-> "failed"] \in Answers(s, e)
         /\ \A a \in 0 .. s, b \in 0 .. e :
              [call |-> "answered", start |-> a, end |-> b] \in Answers(s, e)
         /\ \A r \in Answers(s, e) :
              /\ r.call \in {"none", "asked", "failed", "answered"}
              /\ r.call = "none" => r = NoReplay
              /\ r.call = "answered" => r.start \in 0 .. s /\ r.end \in 0 .. e
BY DEF Answers, NoReplay

LEMMA AnswersGrow ==
  ASSUME NEW s \in Nat, NEW e \in Nat, NEW t \in Nat, NEW f \in Nat, s <= t, e <= f
  PROVE  Answers(s, e) \subseteq Answers(t, f)
<1>1. 0 .. s \subseteq 0 .. t /\ 0 .. e \subseteq 0 .. f
  OBVIOUS
<1> QED
  BY <1>1 DEF Answers

LEMMA HandlerTypes ==
  ASSUME NEW n \in Nat
  PROVE  /\ Idle \in Handling(n) /\ Gone \in Handling(n) /\ Idle.step = "idle"
         /\ Gone.step = "gone" /\ Idle # Gone
         /\ Carried(Idle) = <<>> /\ Carried(Gone) = <<>>
         /\ \A ev \in Upto(n) : /\ [step |-> "taken", event |-> ev] \in Handling(n)
                                /\ Carried([step |-> "taken", event |-> ev]) = <<ev>>
BY DEF Handling, Idle, Gone, Carried

LEMMA HandlerSteps ==
  ASSUME NEW n \in Nat, NEW h \in Handling(n)
  PROVE  /\ h.step \in {"gone", "idle", "taken", "cleared"}
         /\ h.step \in {"taken", "cleared"} => h.event \in Upto(n) /\ Carried(h) = <<h.event>>
         /\ h.step \in {"gone", "idle"} => Carried(h) = <<>>
         /\ h.step = "taken" =>
              /\ [h EXCEPT !.step = "cleared"] \in Handling(n)
              /\ Carried([h EXCEPT !.step = "cleared"]) = <<h.event>>
BY DEF Handling, Carried

LEMMA RecordFacts ==
  ASSUME Typed, Record
  PROVE  end' = end + 1 /\ end' \in Offsets /\ start' \in start .. end'
<1>1. end \in Nat /\ start \in Nat /\ start <= end /\ end < MaxOutput
  BY Numbers DEF Record
<1>2. HistoryLimit \in Nat \ {0}
  BY TerminalAssumption
<1>3. HistoryLimit \div 4 \in 0 .. HistoryLimit
  BY <1>2
<1> DEFINE q == HistoryLimit \div 4
<1>4. start' = IF end + 1 - start > HistoryLimit THEN end + 1 - (HistoryLimit - q) ELSE start
  BY DEF Record
<1>5. end' = end + 1
  BY DEF Record
<1> HIDE DEF q
<1>6. q \in 0 .. HistoryLimit
  BY <1>3 DEF q
<1>7. start' \in start .. end'
  BY <1>1, <1>2, <1>4, <1>5, <1>6
<1> QED
  BY <1>1, <1>5, <1>7, Numbers DEF Offsets

LEMMA TakenTypes ==
  ASSUME Typed, NEW h \in Handling(published), NEW after, Taken(h, after)
  PROVE  /\ after \in Handling(published) /\ Carried(after) = <<Head(queue)>>
         /\ queue' = Tail(queue) /\ queue # <<>> /\ h.step = "idle"
         /\ queue' \in Seq(Upto(published)) /\ Len(queue') <= QueueLimit
         /\ Head(queue) \in Upto(published)
<1>1. queue \in Seq(Upto(published)) /\ Len(queue) <= QueueLimit /\ queue # <<>>
  BY DEF Typed, Taken
<1>2. /\ Head(queue) \in Upto(published) /\ Tail(queue) \in Seq(Upto(published))
      /\ Len(Tail(queue)) = Len(queue) - 1
  BY <1>1
<1> QED
  BY <1>1, <1>2, HandlerTypes, Numbers, TerminalAssumption DEF Taken

LEMMA KeptTypes ==
  ASSUME NEW S, NEW s \in Seq(S), Len(s) <= PendingLimit, NEW ev \in S
  PROVE  Append(Kept(s), ev) \in Seq(S) /\ Len(Append(Kept(s), ev)) <= PendingLimit
<1>1. PendingLimit \in Nat \ {0, 1}
  BY TerminalAssumption
<1>2. CASE Len(s) = PendingLimit
  <2>1. Tail(s) \in Seq(S) /\ Len(Tail(s)) = Len(s) - 1
    BY <1>1, <1>2
  <2> QED
    BY <1>1, <1>2, <2>1 DEF Kept
<1>3. CASE Len(s) # PendingLimit
  BY <1>1, <1>3 DEF Kept
<1> QED
  BY <1>2, <1>3

(* The answer is written from the cursor, or from where the history begins. *)
LEMMA ReplayedFacts ==
  ASSUME Typed, Replayed
  PROVE  /\ cursor' \in 0 .. end /\ cursor <= cursor' /\ missed' \in Offsets /\ MissedKept
         /\ twice' = twice
         /\ skipped' \subseteq skipped \cup (1 .. start)
         /\ skipped' \in SUBSET Offsets
         /\ \/ replay.call = "failed" /\ (published <= missed' \/ published <= cursor')
            \/ replay.call = "answered" /\ cursor' >= replay.end
<1>1. replay \in Answers(start, end) /\ skipped \in SUBSET Offsets /\ missed \in Offsets
  BY DEF Typed
<1>2. CASE replay.call = "failed" /\ Ignored(published) /\ UNCHANGED <<cursor, skipped, twice>>
  BY <1>1, <1>2, IgnoredFacts, Numbers
<1>3. CASE replay.call = "answered" /\ replay.end <= cursor /\ UNCHANGED <<cursor, history>>
  BY <1>1, <1>3, Numbers, ReplayTypes DEF history, MissedKept
<1>4. CASE /\ replay.call = "answered" /\ replay.end > cursor
           /\ Written(IF replay.start > cursor THEN replay.start ELSE cursor, replay.end)
  <2>1. replay.start \in 0 .. start /\ replay.end \in 0 .. end
    BY <1>1, <1>4, ReplayTypes, Numbers
  <2> DEFINE from == IF replay.start > cursor THEN replay.start ELSE cursor
  <2>2. /\ from \in Nat /\ cursor <= from /\ cursor <= replay.end
        /\ cursor + 1 .. from \subseteq 1 .. start
    BY <1>4, <2>1, Numbers
  <2>3. Written(from, replay.end)
    BY <1>4
  <2> HIDE DEF from
  <2>4. /\ cursor' = replay.end /\ missed' \in Offsets /\ MissedKept /\ twice' = twice
        /\ skipped' = skipped \cup (cursor + 1 .. from)
    BY <2>1, <2>2, <2>3, WrittenFacts, Zenon
  <2>5. 1 .. start \subseteq Offsets
    BY Numbers DEF Offsets
  <2> QED
    BY <1>1, <1>4, <2>1, <2>2, <2>4, <2>5, Numbers
<1> QED
  BY <1>2, <1>3, <1>4 DEF Replayed

LEMMA TypedKeeps ==
  ASSUME Typed, Next
  PROVE  Typed'
<1> USE DEF Typed, output, coordinator, stream, client, renderer, history
<1>0. /\ replay \in Answers(start, end) /\ cursor \in 0 .. end
      /\ queue \in Seq(Upto(published)) /\ Len(queue) <= QueueLimit
      /\ wire \in Seq(Upto(published)) /\ Len(wire) <= WireLimit
      /\ pending \in Seq(Upto(published)) /\ Len(pending) <= PendingLimit
      /\ batch \in Seq(Upto(published))
      /\ serving \in Handling(published) /\ stale \in Handling(published)
  OBVIOUS
<1>l. /\ QueueLimit \in Nat \ {0} /\ WireLimit \in Nat \ {0}
      /\ PendingLimit \in Nat \ {0}
  BY TerminalAssumption
<1>1. CASE Record
  <2>1. end' = end + 1 /\ end' \in Offsets /\ start' \in start .. end'
    BY <1>1, RecordFacts
  <2>2. end' \in Nat /\ start' \in Nat /\ start' \in 0 .. end' /\ published \in 0 .. end'
        /\ cursor \in 0 .. end'
    BY <2>1, Numbers
  <2>3. replay \in Answers(start', end')
    BY <1>0, <2>1, <2>2, AnswersGrow, Numbers
  <2> QED
    BY <1>1, <2>1, <2>2, <2>3 DEF Record
<1>2. CASE Exit
  BY <1>2 DEF Exit
<1>3. CASE Publish
  <2>1. published' = end /\ end \in Nat /\ published <= end /\ published' \in 0 .. end
    BY <1>3, Numbers DEF Publish, Offer
  <2>2. /\ queue \in Seq(Upto(end)) /\ wire \in Seq(Upto(end)) /\ pending \in Seq(Upto(end))
        /\ batch \in Seq(Upto(end))
    BY <1>0, <2>1, Numbers, SeqGrows
  <2>3. serving \in Handling(end) /\ stale \in Handling(end)
    BY <1>0, <2>1, Numbers, UptoGrows
  <2>4. Offered \in Upto(end)
    BY <2>1, Numbers, DataEvent, EventNames DEF Offered
  <2>5. queue' \in Seq(Upto(end)) /\ Len(queue') <= QueueLimit
    <3>1. CASE suspended
      BY <1>3, <1>0, <2>2, <3>1 DEF Publish
    <3>2. CASE ~suspended
      <4>1. queue' = Append(queue, Offered) /\ Len(queue) < QueueLimit
        BY <1>3, <3>2 DEF Publish
      <4>2. Len(Append(queue, Offered)) = Len(queue) + 1
            /\ Append(queue, Offered) \in Seq(Upto(end)) /\ Len(queue) \in Nat
        BY <2>2, <2>4
      <4> QED
        BY <4>1, <4>2, <1>l
    <3> QED
      BY <3>1, <3>2
  <2> QED
    BY <1>3, <2>1, <2>2, <2>3, <2>5 DEF Publish, Offer
<1>4. CASE Overflow
  BY <1>4 DEF Overflow
<1>5. CASE DrainCheck
  BY <1>5 DEF DrainCheck
<1>6. CASE DrainReceive
  <2>1. queue' \in Seq(Upto(published)) /\ Len(queue') <= QueueLimit
    BY <1>0, <1>6, <1>l, TailFacts DEF DrainReceive
  <2> QED
    BY <1>6, <2>1 DEF DrainReceive
<1>7. CASE Drained
  <2>1. published' = end /\ end \in Nat /\ published <= end /\ published' \in 0 .. end
    BY <1>7, Numbers DEF Drained, Offer
  <2>2. /\ wire \in Seq(Upto(end)) /\ pending \in Seq(Upto(end)) /\ batch \in Seq(Upto(end))
    BY <1>0, <2>1, Numbers, SeqGrows
  <2>3. serving \in Handling(end) /\ stale \in Handling(end)
    BY <1>0, <2>1, Numbers, UptoGrows
  <2>4. <<Resync>> \in Seq(Upto(end)) /\ Len(<<Resync>>) <= QueueLimit
    BY <1>l, <2>1, EventNames
  <2> QED
    BY <1>7, <2>1, <2>2, <2>3, <2>4 DEF Drained, Offer
<1>8. CASE Close
  BY <1>8 DEF Close
<1>9. CASE Take
  <2>1. /\ serving' \in Handling(published)
        /\ queue' \in Seq(Upto(published)) /\ Len(queue') <= QueueLimit
    BY <1>0, <1>9, TakenTypes DEF Take
  <2> QED
    BY <1>9, <2>1 DEF Take, Taken
<1>10. CASE Clear
  <2>1. serving' \in Handling(published)
    BY <1>0, <1>10, HandlerSteps, Numbers DEF Clear, Cleared
  <2> QED
    BY <1>10, <2>1 DEF Clear, Cleared
<1>11. CASE Flush
  <2>1. serving' \in Handling(published)
    BY <1>11, HandlerTypes, Numbers DEF Flush
  <2>2. serving.event \in Upto(published)
    BY <1>0, <1>11, HandlerSteps, Numbers DEF Flush, Flushable
  <2>3. wire' \in Seq(Upto(published)) /\ Len(wire') = Len(wire) + 1 /\ Len(wire) \in Nat
    BY <1>0, <1>11, <2>2 DEF Flush
  <2>4. Len(wire') <= WireLimit
    BY <1>11, <1>l, <2>3 DEF Flush
  <2> QED
    BY <1>11, <2>1, <2>3, <2>4 DEF Flush
<1>12. CASE StaleTake
  <2>1. /\ stale' \in Handling(published)
        /\ queue' \in Seq(Upto(published)) /\ Len(queue') <= QueueLimit
    BY <1>0, <1>12, TakenTypes DEF StaleTake
  <2> QED
    BY <1>12, <2>1 DEF StaleTake, Taken
<1>13. CASE StaleClear
  <2>1. stale' \in Handling(published)
    BY <1>0, <1>13, HandlerSteps, Numbers DEF StaleClear, Cleared
  <2> QED
    BY <1>13, <2>1 DEF StaleClear, Cleared
<1>14. CASE StaleFlush
  BY <1>14, HandlerTypes, Numbers, IgnoredFacts DEF StaleFlush
<1>15. CASE StaleEncodeFails
  BY <1>15, HandlerTypes, Numbers, IgnoredFacts DEF StaleEncodeFails
<1>16. CASE StaleDone
  BY <1>16, HandlerTypes DEF StaleDone
<1>17. CASE Break
  <2>1. serving' \in Handling(published) /\ stale' \in Handling(published)
    BY <1>0, <1>17, HandlerTypes, Numbers DEF Break
  <2>2. wire' \in Seq(Upto(published)) /\ Len(wire') <= WireLimit
    BY <1>17, <1>l DEF Break
  <2>3. faults' \in 0 .. MaxFaults
    BY <1>17, TerminalAssumption DEF Break, Fault
  <2>4. pending' \in Seq(Upto(published)) /\ Len(pending') <= PendingLimit
    BY <1>0, <1>17, <1>l, EventNames, Numbers, KeptTypes DEF Break, Told
  <2> QED
    BY <1>17, <2>1, <2>2, <2>3, <2>4 DEF Break
<1>18. CASE Connect
  <2>1. serving' \in Handling(published)
    BY <1>18, HandlerTypes, Numbers DEF Connect
  <2>2. wire' \in Seq(Upto(published)) /\ Len(wire') <= WireLimit
    BY <1>18, <1>l, EventNames, Numbers DEF Connect
  <2> QED
    BY <1>18, <2>1, <2>2 DEF Connect
<1>19. CASE Receive
  <2>1. /\ Head(wire) \in Upto(published) /\ wire' \in Seq(Upto(published))
        /\ Len(wire') <= WireLimit
    BY <1>0, <1>19, <1>l, TailFacts DEF Receive
  <2>2. CASE ready /\ Emit(Head(wire)) /\ UNCHANGED pending
    BY <1>19, <2>1, <2>2, EmitFacts DEF Receive
  <2>3. CASE /\ pending' = Append(Kept(pending), Head(wire))
             /\ UNCHANGED <<replay, cursor, history>>
    <3>1. pending' \in Seq(Upto(published)) /\ Len(pending') <= PendingLimit
      BY <1>0, <2>1, <2>3, KeptTypes
    <3> QED
      BY <1>19, <2>1, <2>3, <3>1 DEF Receive
  <2> QED
    BY <1>19, <2>2, <2>3 DEF Receive
<1>20. CASE Mount
  <2>1. replay' \in Answers(start, end)
    BY <1>20, ReplayTypes, Numbers DEF Mount
  <2> QED
    BY <1>20, <2>1 DEF Mount
<1>21. CASE RendererReady
  <2>1. /\ pending' \in Seq(Upto(published)) /\ Len(pending') <= PendingLimit
        /\ batch' \in Seq(Upto(published)) /\ ready' \in BOOLEAN
    BY <1>0, <1>21, <1>l DEF RendererReady
  <2> QED
    BY <1>21, <2>1 DEF RendererReady
<1>22. CASE EmitBatch
  BY <1>22, EmitFacts DEF EmitBatch
<1>23. CASE Snapshot
  <2>1. replay' \in Answers(start, end)
    BY <1>23, ReplayTypes, Numbers DEF Snapshot
  <2> QED
    BY <1>23, <2>1 DEF Snapshot
<1>24. CASE SnapshotFails
  <2>1. replay' \in Answers(start, end)
    BY <1>24, ReplayTypes, Numbers DEF SnapshotFails
  <2>2. faults' \in 0 .. MaxFaults
    BY <1>24, TerminalAssumption DEF SnapshotFails, Fault
  <2> QED
    BY <1>24, <2>1, <2>2 DEF SnapshotFails
<1>25. CASE Replayed
  <2>1. replay' \in Answers(start, end)
    BY <1>25, ReplayTypes, Numbers DEF Replayed
  <2>2. /\ cursor' \in 0 .. end /\ missed' \in Offsets
        /\ twice' \in SUBSET Offsets /\ skipped' \in SUBSET Offsets
    BY <1>25, ReplayedFacts
  <2> QED
    BY <1>25, <2>1, <2>2 DEF Replayed
<1>26. CASE ConnectFails
  <2>1. pending' \in Seq(Upto(published)) /\ Len(pending') <= PendingLimit
    BY <1>0, <1>26, <1>l, EventNames, Numbers, KeptTypes DEF ConnectFails, Told
  <2>2. faults' \in 0 .. MaxFaults
    BY <1>26, TerminalAssumption DEF ConnectFails, Fault
  <2> QED
    BY <1>26, <2>1, <2>2 DEF ConnectFails
<1> QED
  BY <1>1, <1>2, <1>3, <1>4, <1>5, <1>6, <1>7, <1>8, <1>9, <1>10, <1>11, <1>12,
     <1>13, <1>14, <1>15, <1>16, <1>17, <1>18, <1>19, <1>20, <1>21, <1>22, <1>23,
     <1>24, <1>25, <1>26 DEF Next

-----------------------------------------------------------------------------
(* What is shown and what is accounted for only grows. *)
LEMMA Moves ==
  ASSUME Typed, Next
  PROVE  /\ MissedKept
         /\ start <= start'
         /\ twice' = twice
         /\ skipped' \subseteq skipped \cup (1 .. start)
<1>1. CASE Record
  <2>1. start <= start'
    BY <1>1, RecordFacts, Numbers
  <2> QED
    BY <1>1, <2>1 DEF Record, history, renderer, MissedKept
<1>2. CASE \/ Exit \/ Publish \/ Overflow \/ DrainCheck \/ DrainReceive \/ Drained \/ Close
  BY <1>2, Numbers DEF Exit, Publish, Overflow, DrainCheck, DrainReceive, Drained, Close,
     Offer, output, history, renderer, MissedKept
<1>3. CASE Take \/ Clear \/ Flush \/ StaleTake \/ StaleClear \/ StaleDone
  BY <1>3, Numbers DEF Take, Clear, Flush, StaleTake, StaleClear, StaleDone, Taken, Cleared,
     output, history, renderer, MissedKept
<1>4. CASE StaleFlush \/ StaleEncodeFails
  BY <1>4, Numbers, IgnoredFacts DEF StaleFlush, StaleEncodeFails, output, renderer
<1>5. CASE \/ Break \/ Connect \/ ConnectFails \/ Mount \/ RendererReady
           \/ Snapshot \/ SnapshotFails
  BY <1>5, Numbers DEF Break, Connect, ConnectFails, Mount, RendererReady, Snapshot, SnapshotFails,
     output, history, renderer, MissedKept
<1>6. CASE Receive
  <2>1. Head(wire) \in Upto(published)
    BY <1>6, TailFacts DEF Receive, Typed
  <2>2. start' = start
    BY <1>6 DEF Receive, output
  <2>3. CASE Emit(Head(wire))
    BY <2>1, <2>2, <2>3, EmitFacts, Numbers
  <2>4. CASE UNCHANGED <<replay, cursor, history>>
    BY <2>2, <2>4, Numbers DEF history, MissedKept
  <2> QED
    BY <1>6, <2>3, <2>4 DEF Receive
<1>7. CASE EmitBatch
  <2>1. Head(batch) \in Upto(published)
    BY <1>7, TailFacts DEF EmitBatch, Typed
  <2> QED
    BY <1>7, <2>1, EmitFacts, Numbers DEF EmitBatch, output
<1>8. CASE Replayed
  BY <1>8, ReplayedFacts, Numbers DEF Replayed, output
<1> QED
  BY <1>1, <1>2, <1>3, <1>4, <1>5, <1>6, <1>7, <1>8 DEF Next

LEMMA ShownOnceKeeps ==
  ASSUME Typed, ShownOnce, Next
  PROVE  ShownOnce'
<1>1. 1 .. start \subseteq 1 .. start'
  <2>1. start \in Nat /\ start' \in Nat
    BY Numbers, TypedKeeps DEF Typed, Offsets
  <2> QED
    BY <2>1, Moves
<1> QED
  BY <1>1, Moves DEF ShownOnce

LEMMA ConnectionsKeep ==
  ASSUME Typed, Connections, Next
  PROVE  Connections'
<1> USE DEF Connections, output, coordinator, stream, client, renderer, history
<1>1. CASE \/ Record \/ Exit \/ Publish \/ Overflow \/ DrainCheck \/ DrainReceive
           \/ Drained \/ Close
  BY <1>1 DEF Record, Exit, Publish, Overflow, DrainCheck, DrainReceive, Drained, Close, Typed
<1>2. CASE Take \/ Clear \/ Flush
  <2>1. serving # Gone /\ up
    BY <1>2, HandlerTypes, Numbers DEF Take, Taken, Clear, Cleared, Flush, Flushable
  <2>2. UNCHANGED <<up, ready, pending, batch, publisher, page, replay>>
    BY <1>2 DEF Take, Taken, Clear, Cleared, Flush
  <2>3. suspended' = FALSE \/ UNCHANGED suspended
    BY <1>2 DEF Take, Taken, Clear, Cleared, Flush
  <2> QED
    BY <2>1, <2>2, <2>3
<1>3. CASE \/ StaleTake \/ StaleClear \/ StaleFlush \/ StaleEncodeFails \/ StaleDone
           \/ Break \/ Connect \/ ConnectFails
  BY <1>3 DEF StaleTake, Taken, StaleClear, Cleared, StaleFlush, StaleEncodeFails, StaleDone,
     Break, Connect, ConnectFails, Told
<1>4. CASE Receive
  <2>1. UNCHANGED <<up, serving, ready, batch, publisher, suspended, page>>
    BY <1>4 DEF Receive
  <2>2. ready => pending' = pending
    BY <1>4 DEF Receive
  <2>3. ~ready => replay' = replay
    BY <1>4 DEF Receive
  <2> QED
    BY <2>1, <2>2, <2>3
<1>5. CASE EmitBatch
  <2>1. UNCHANGED <<up, serving, ready, pending, publisher, suspended, page>> /\ batch # <<>>
    BY <1>5 DEF EmitBatch
  <2> QED
    BY <2>1
<1>6. CASE Mount \/ Snapshot \/ SnapshotFails \/ Replayed
  BY <1>6, ReplayTypes DEF Mount, Snapshot, SnapshotFails, Replayed, NoReplay
<1>7. CASE RendererReady
  <2>1. pending' = <<>> /\ batch' = pending /\ (ready' <=> pending = <<>>) /\ page = "mounted"
    BY <1>7 DEF RendererReady
  <2>2. UNCHANGED <<up, serving, publisher, suspended, page, replay>>
    BY <1>7 DEF RendererReady
  <2> QED
    BY <2>1, <2>2
<1> QED
  BY <1>1, <1>2, <1>3, <1>4, <1>5, <1>6, <1>7 DEF Next

(* The actions that leave the queue and what is published alone. *)
QueueStays ==
  \/ Record \/ Exit \/ Overflow \/ DrainCheck \/ Close \/ Clear \/ Flush
  \/ StaleClear \/ StaleFlush \/ StaleEncodeFails \/ StaleDone
  \/ Break \/ Connect \/ ConnectFails \/ Receive \/ Mount \/ RendererReady \/ EmitBatch \/ Snapshot \/ SnapshotFails \/ Replayed

LEMMA QueueUnchanged ==
  QueueStays => UNCHANGED <<queue, published>>
BY DEF QueueStays, Record, Exit, Overflow, DrainCheck, Close, Clear, Cleared, Flush,
   StaleClear, StaleFlush, StaleEncodeFails, StaleDone, Break, Connect, ConnectFails,
   Receive, Mount, RendererReady, EmitBatch, Snapshot, SnapshotFails, Replayed,
   output, coordinator

LEMMA OfferedFacts ==
  ASSUME Typed, NEW n, n = end
  PROVE  /\ Offered \in Upto(end)
         /\ Offered = Exited \/ Sign(Offered, n)
         /\ published < end => Sign(Offered, n) /\ Offered # Exited
BY Numbers, DataEvent, EventNames DEF Offered

LEMMA QueueSignedKeeps ==
  ASSUME Typed, ResyncComes, QueueSigned, Next
  PROVE  QueueSigned'
<1>0. queue \in Seq(Upto(published)) /\ published \in Nat /\ end \in Nat /\ published <= end
  BY Numbers DEF Typed
<1>1. CASE QueueStays
  BY <1>1, QueueUnchanged DEF QueueSigned
<1>2. CASE Publish
  <2>1. published' = end
    BY <1>2 DEF Publish, Offer
  <2>2. CASE suspended
    <3>1. queue = <<>> \/ queue = <<Resync>>
      BY <2>2 DEF ResyncComes
    <3>2. queue' = queue
      BY <1>2, <2>2 DEF Publish
    <3> QED
      BY <3>1, <3>2, <2>1, <1>0, ShortFacts, EventNames DEF QueueSigned
  <2>3. CASE ~suspended
    <3>1. queue' = Append(queue, Offered) /\ queue \in Seq(Upto(end))
      BY <1>0, <1>2, <2>3, SeqGrows DEF Publish
    <3>2. CASE Sign(Offered, end)
      BY <1>0, <2>1, <3>1, <3>2, OfferedFacts, AppendFacts DEF QueueSigned
    <3>3. CASE Offered = Exited /\ ~ (published < end)
      <4>1. published = end
        BY <1>0, <3>3
      <4> QED
        BY <1>0, <2>1, <3>1, <3>3, <4>1, OfferedFacts, AppendFacts DEF QueueSigned
    <3> QED
      BY <3>2, <3>3, OfferedFacts
  <2> QED
    BY <2>2, <2>3
<1>3. CASE DrainReceive \/ Take \/ StaleTake
  <2>1. queue # <<>> /\ queue' = Tail(queue) /\ published' = published
    BY <1>3 DEF DrainReceive, Take, StaleTake, Taken, output
  <2> QED
    BY <1>0, <2>1, TailFacts DEF QueueSigned
<1>4. CASE Drained
  BY <1>0, <1>4, ShortFacts, EventNames DEF Drained, Offer, QueueSigned
<1> QED
  BY <1>1, <1>2, <1>3, <1>4 DEF Next, QueueStays

LEMMA ResyncComesKeeps ==
  ASSUME Typed, Connections, ResyncComes, Next
  PROVE  ResyncComes'
<1> DEFINE Lost == missed >= MaxOutput \/ cursor >= MaxOutput
<1>0. Lost => Lost'
  <2>1. Lost <=> MaxOutput <= missed \/ MaxOutput <= cursor
    BY Numbers
  <2>2. Lost' <=> MaxOutput <= missed' \/ MaxOutput <= cursor'
    BY Numbers, TypedKeeps DEF Typed, Offsets
  <2> QED
    BY <2>1, <2>2, Moves, Numbers DEF MissedKept
<1> HIDE DEF Lost
<1>r. suspended => \/ queue = <<Resync>>
                   \/ queue = <<>> /\ (Waits(serving) \/ Waits(stale) \/ Lost)
  BY DEF ResyncComes, Lost
<1>g. SUFFICES suspended' => \/ queue' = <<Resync>>
                             \/ queue' = <<>> /\ (Waits(serving') \/ Waits(stale') \/ Lost')
  BY DEF ResyncComes, Lost, Waits
<1>s. serving \in Handling(published) /\ stale \in Handling(published) /\ published \in Nat
  BY Numbers DEF Typed
<1>1. CASE \/ Record \/ Exit \/ Overflow \/ DrainCheck \/ Close \/ Receive \/ Mount
           \/ RendererReady \/ EmitBatch \/ Snapshot \/ SnapshotFails \/ Replayed
           \/ ConnectFails
  <2>1. UNCHANGED <<suspended, queue, serving, stale>>
    BY <1>1 DEF ConnectFails, Record, Exit, Overflow, DrainCheck, Close, Receive, Mount, RendererReady,
       EmitBatch, Snapshot, SnapshotFails, Replayed, coordinator, stream
  <2> QED
    BY <2>1, <1>0, <1>r
<1>2. CASE Publish
  BY <1>0, <1>2, <1>r DEF Publish, stream
<1>3. CASE DrainReceive
  BY <1>3 DEF DrainReceive, Connections
<1>4. CASE Drained
  BY <1>4 DEF Drained
<1>5. CASE Take
  <2>1. /\ queue # <<>> /\ queue' = Tail(queue) /\ UNCHANGED suspended
        /\ serving' = [step |-> "taken", event |-> Head(queue)]
    BY <1>5 DEF Take, Taken
  <2>2. queue = <<Resync>> => queue' = <<>> /\ serving' = [step |-> "taken", event |-> Resync]
    BY <2>1
  <2>3. queue = <<Resync>> => Waits(serving')
    BY <2>2 DEF Waits
  <2> QED
    BY <1>r, <2>1, <2>2, <2>3
<1>6. CASE StaleTake
  <2>1. /\ queue # <<>> /\ queue' = Tail(queue) /\ UNCHANGED suspended
        /\ stale' = [step |-> "taken", event |-> Head(queue)]
    BY <1>6 DEF StaleTake, Taken
  <2>2. queue = <<Resync>> => queue' = <<>> /\ stale' = [step |-> "taken", event |-> Resync]
    BY <2>1
  <2>3. queue = <<Resync>> => Waits(stale')
    BY <2>2 DEF Waits
  <2> QED
    BY <1>r, <2>1, <2>2, <2>3
<1>7. CASE Clear \/ StaleClear
  BY <1>7 DEF Clear, StaleClear, Cleared
<1>8. CASE Flush
  <2>1. ~ Waits(serving)
    BY <1>8 DEF Flush, Flushable, Waits
  <2> QED
    BY <1>0, <1>8, <1>r, <2>1 DEF Flush, coordinator
<1>9. CASE StaleFlush
  <2>1. ~ Waits(stale)
    BY <1>9 DEF StaleFlush, Flushable, Waits
  <2> QED
    BY <1>0, <1>9, <1>r, <2>1 DEF StaleFlush, coordinator
<1>10. CASE StaleEncodeFails
  <2>1. Waits(stale) => Lost'
    <3>1. ASSUME Waits(stale) PROVE Ignored(MaxOutput) /\ UNCHANGED cursor
      BY <1>10, <3>1 DEF StaleEncodeFails, Waits, renderer
    <3> QED
      BY <3>1, IgnoredFacts, Numbers DEF Lost
  <2> QED
    BY <1>0, <1>10, <1>r, <2>1 DEF StaleEncodeFails, coordinator
<1>11. CASE StaleDone
  <2>1. ~ Waits(stale)
    BY <1>11 DEF StaleDone, Waits
  <2> QED
    BY <1>0, <1>11, <1>r, <2>1 DEF StaleDone, coordinator
<1>12. CASE Break
  <2>1. ~ Waits(stale)
    BY <1>12 DEF Break, Waits, Gone
  <2> QED
    BY <1>0, <1>12, <1>r, <2>1 DEF Break, coordinator
<1>13. CASE Connect
  <2>1. ~ Waits(serving)
    BY <1>13 DEF Connect, Connections, Waits, Gone
  <2> QED
    BY <1>0, <1>13, <1>r, <2>1 DEF Connect, coordinator
<1> QED
  BY <1>1, <1>2, <1>3, <1>4, <1>5, <1>6, <1>7, <1>8, <1>9, <1>10, <1>11, <1>12, <1>13
  DEF Next

LEMMA KeptExit ==
  ASSUME NEW S, NEW s \in Seq(S), NoExit(s), Len(s) <= PendingLimit
  PROVE  NoExit(Kept(s))
<1>1. PendingLimit \in Nat \ {0, 1}
  BY TerminalAssumption
<1>2. CASE Len(s) = PendingLimit
  BY <1>1, <1>2, TailFacts DEF Kept
<1> QED
  BY <1>2 DEF Kept

LEMMA ToldExit ==
  ASSUME NEW n \in Nat, NEW s \in Seq(Upto(n)), NoExit(s), Len(s) <= PendingLimit
  PROVE  NoExit(Append(Kept(s), Disconnected))
<1>1. Kept(s) \in Seq(Upto(n)) /\ NoExit(Kept(s))
  BY KeptTypes, KeptExit, TerminalAssumption, TailFacts DEF Kept
<1> QED
  BY <1>1, EventNames, AppendFacts

LEMMA ExitOnceKeeps ==
  ASSUME Typed, Connections, ExitOnce, Next
  PROVE  ExitOnce'
<1>0. /\ queue \in Seq(Upto(published)) /\ wire \in Seq(Upto(published))
      /\ pending \in Seq(Upto(published)) /\ Len(pending) <= PendingLimit
      /\ serving \in Handling(published) /\ published \in Nat
      /\ end \in Nat /\ published <= end
  BY Numbers DEF Typed
<1>1. CASE \/ Record \/ Exit \/ Overflow \/ DrainCheck \/ Close \/ StaleClear \/ StaleFlush
           \/ StaleEncodeFails \/ StaleDone \/ Mount \/ EmitBatch \/ Snapshot
           \/ SnapshotFails \/ Replayed
  <2>1. UNCHANGED <<queue, serving, wire, pending>>
    BY <1>1 DEF Record, Exit, Overflow, DrainCheck, Close, StaleClear, Cleared, StaleFlush,
       StaleEncodeFails, StaleDone, Mount, EmitBatch, Snapshot, SnapshotFails, Replayed,
       coordinator, stream, client
  <2>2. Reading' => Reading
    BY <1>1 DEF Reading, Record, Exit, Overflow, DrainCheck, Close, StaleClear, Cleared, StaleFlush,
       StaleEncodeFails, StaleDone, Mount, EmitBatch, Snapshot, SnapshotFails, Replayed,
       output
  <2> QED
    BY <2>1, <2>2 DEF ExitOnce
<1>2. CASE Publish
  <2>1. /\ UNCHANGED <<serving, wire, pending>>
        /\ Reading' => Reading
        /\ published < end => terminal' = terminal
    BY <1>2 DEF Publish, Offer, Reading, stream, client
  <2>2. CASE queue' = queue
    BY <2>1, <2>2 DEF ExitOnce
  <2>3. CASE queue' = Append(queue, Offered)
    <3>1. queue \in Seq(Upto(end)) /\ Offered \in Upto(end)
      BY <1>0, SeqGrows, OfferedFacts
    <3>2. CASE published < end
      <4>1. Offered # Exited /\ terminal' = terminal
        BY <1>0, <2>1, <3>2, OfferedFacts
      <4>2. /\ NoExit(queue) => NoExit(queue')
            /\ Once(queue) => Once(queue')
            /\ NoExit(queue) => Once(queue')
        BY <1>0, <2>3, <3>1, <4>1, AppendFacts
      <4> QED
        BY <2>1, <4>2 DEF ExitOnce
    <3>3. CASE ~ (published < end)
      <4>1. Reading /\ ~Reading'
        BY <1>2, <3>3 DEF Publish, Publishing, Offer, Reading
      <4>2. NoExit(queue) => Once(queue')
        BY <1>0, <2>3, <3>1, AppendFacts
      <4> QED
        BY <2>1, <4>1, <4>2 DEF ExitOnce
    <3> QED
      BY <3>2, <3>3
  <2> QED
    BY <1>2, <2>2, <2>3 DEF Publish
<1>3. CASE DrainReceive \/ StaleTake
  <2>1. /\ queue # <<>> /\ queue' = Tail(queue)
        /\ UNCHANGED <<terminal, serving, wire, pending>>
    BY <1>3 DEF DrainReceive, StaleTake, Taken, output, stream, client
  <2>2. (NoExit(queue) => NoExit(queue')) /\ (Once(queue) => Once(queue'))
    BY <1>0, <2>1, TailFacts
  <2> QED
    BY <2>1, <2>2 DEF ExitOnce, Reading
<1>4. CASE Drained
  <2>1. /\ queue' = <<Resync>> /\ UNCHANGED <<serving, wire, pending>>
        /\ Reading' => Reading
    BY <1>4 DEF Drained, Offer, Reading, stream, client
  <2>2. NoExit(queue')
    BY <2>1, ShortFacts, EventNames
  <2> QED
    BY <2>1, <2>2 DEF ExitOnce
<1>5. CASE Take
  <2>1. /\ queue # <<>> /\ queue' = Tail(queue) /\ UNCHANGED <<terminal, wire, pending>>
        /\ Carried(serving) = <<>> /\ Carried(serving') = <<Head(queue)>>
    BY <1>0, <1>5, TakenTypes, HandlerSteps DEF Take, Taken, output, client
  <2>2. /\ NoExit(queue) => NoExit(queue') /\ Head(queue) # Exited
        /\ Once(queue) => Once(queue') /\ (Head(queue) = Exited => NoExit(queue'))
    BY <1>0, <2>1, TailFacts
  <2>3. NoExit(Carried(serving')) <=> Head(queue) # Exited
    BY <2>1, ShortFacts
  <2>4. NoExit(Carried(serving))
    BY <2>1, ShortFacts
  <2> QED
    BY <2>1, <2>2, <2>3, <2>4 DEF ExitOnce, Reading, Carried
<1>6. CASE Clear
  <2>1. /\ UNCHANGED <<terminal, queue, wire, pending>>
        /\ Carried(serving') = Carried(serving)
    BY <1>0, <1>6, HandlerSteps DEF Clear, Cleared, output, client
  <2> QED
    BY <2>1 DEF ExitOnce, Reading, Carried
<1>7. CASE Flush
  <2>1. /\ UNCHANGED <<terminal, queue, pending>>
        /\ wire' = Append(wire, serving.event) /\ serving.event \in Upto(published)
        /\ Carried(serving) = <<serving.event>> /\ Carried(serving') = <<>>
    BY <1>0, <1>7, HandlerSteps, HandlerTypes DEF Flush, Flushable, output, coordinator, client
  <2>2. /\ NoExit(wire) /\ serving.event # Exited => NoExit(wire')
        /\ NoExit(wire) => Once(wire')
        /\ Once(wire) /\ serving.event # Exited => Once(wire')
    BY <1>0, <2>1, AppendFacts
  <2>3. /\ NoExit(Carried(serving)) <=> serving.event # Exited
        /\ NoExit(Carried(serving'))
    BY <2>1, ShortFacts
  <2> QED
    BY <2>1, <2>2, <2>3 DEF ExitOnce, Reading, Carried
<1>8. CASE Break \/ Connect
  <2>1. /\ UNCHANGED <<terminal, queue>>
        /\ pending' = pending \/ pending' = Append(Kept(pending), Disconnected)
        /\ wire' \in {<<>>, <<Connected>>} /\ Carried(serving') = <<>>
    BY <1>8, HandlerTypes, <1>0 DEF Break, Connect, Told, output, coordinator, client
  <2>2. NoExit(wire') /\ Once(wire') /\ NoExit(Carried(serving'))
    BY <2>1, ShortFacts, EventNames
  <2>3. NoExit(pending) => NoExit(pending')
    BY <1>0, <2>1, ToldExit
  <2> QED
    BY <2>1, <2>2, <2>3 DEF ExitOnce, Reading, Carried
<1>11. CASE ConnectFails
  <2>1. /\ UNCHANGED <<terminal, queue, serving, wire>>
        /\ pending' = pending \/ pending' = Append(Kept(pending), Disconnected)
    BY <1>11 DEF ConnectFails, Told, output, coordinator, stream
  <2>2. NoExit(pending) => NoExit(pending')
    BY <1>0, <2>1, ToldExit
  <2> QED
    BY <2>1, <2>2 DEF ExitOnce, Reading, Carried
<1>9. CASE Receive
  <2>1. /\ UNCHANGED <<terminal, queue, serving>> /\ wire # <<>> /\ wire' = Tail(wire)
    BY <1>9 DEF Receive, output, coordinator
  <2>2. /\ NoExit(wire) => NoExit(wire') /\ Head(wire) # Exited
        /\ Once(wire) => Once(wire') /\ (Head(wire) = Exited => NoExit(wire'))
    BY <1>0, <2>1, TailFacts
  <2>3. CASE pending' = pending
    BY <2>1, <2>2, <2>3 DEF ExitOnce, Reading
  <2>4. CASE pending' = Append(Kept(pending), Head(wire))
    <3>1. Kept(pending) \in Seq(Upto(published)) /\ Head(wire) \in Upto(published)
      BY <1>0, <2>1, TailFacts, TerminalAssumption DEF Kept
    <3>2. NoExit(pending) /\ Head(wire) # Exited => NoExit(pending')
      BY <1>0, <2>4, <3>1, KeptExit, AppendFacts
    <3> QED
      BY <2>1, <2>2, <3>2 DEF ExitOnce, Reading
  <2> QED
    BY <1>9, <2>3, <2>4 DEF Receive
<1>10. CASE RendererReady
  <2>1. UNCHANGED <<terminal, queue, serving, wire>> /\ pending' = <<>>
    BY <1>10 DEF RendererReady, output, coordinator, stream
  <2> QED
    BY <2>1, ShortFacts DEF ExitOnce, Reading
<1> QED
  BY <1>1, <1>2, <1>3, <1>4, <1>5, <1>6, <1>7, <1>8, <1>9, <1>10, <1>11
  DEF Next

-----------------------------------------------------------------------------
(* The stream keeps a sign. *)
Seen == published <= missed \/ published <= cursor

LEMMA SeenKept ==
  ASSUME Typed, Next, published' = published, Seen
  PROVE  Seen'
BY Moves, Numbers DEF Seen, MissedKept

(* A step that disturbs neither the stream nor the other signs. *)
LEMMA SignedStays ==
  ASSUME Typed, Next, Signed,
         UNCHANGED <<queue, published, wire, pending, batch>>,
         Carried(serving') = Carried(serving), Carried(stale') = Carried(stale),
         UNCHANGED <<publisher, up, page, replay>>
  PROVE  Signed'
<1>1. Chain => Chain'
  BY DEF Chain, Carried
<1>2. Otherwise => Otherwise'
  BY SeenKept DEF Otherwise, Seen, Carried
<1> QED
  BY <1>1, <1>2 DEF Signed

LEMMA SignedByPublish ==
  ASSUME Typed, Next, Signed, ResyncComes, Publish
  PROVE  Signed'
<1>0. /\ queue \in Seq(Upto(published)) /\ published \in Nat /\ end \in Nat
      /\ published <= end /\ end <= MaxOutput
      /\ serving \in Handling(published) /\ stale \in Handling(published)
  BY Numbers DEF Typed
<1>1. published' = end /\ UNCHANGED <<serving, stale, wire, up, pending, batch, page, replay,
                                     publisher, missed, cursor>>
  BY DEF Publish, Offer, stream, client, renderer, history
<1>2. CASE suspended
  <2>1. queue' = queue
    BY <1>2 DEF Publish
  <2>2. CASE queue = <<Resync>>
    <3>1. Tells(queue', published')
      BY <1>0, <1>1, <2>1, <2>2, ShortFacts, EventNames
    <3> QED
      BY <3>1 DEF Signed, Chain
  <2>3. CASE queue = <<>> /\ Waits(serving)
    <3>1. Mute(queue') /\ Carried(serving') = <<Resync>>
      BY <1>0, <1>1, <2>1, <2>3, ShortFacts, HandlerSteps DEF Waits, Carried
    <3>2. Tells(Carried(serving'), published')
      BY <1>0, <1>1, <3>1, ShortFacts, EventNames
    <3> QED
      BY <3>1, <3>2 DEF Signed, Chain, Carried
  <2>4. CASE Waits(stale)
    <3>1. Carried(stale') = <<Resync>>
      BY <1>0, <1>1, <2>4, HandlerSteps DEF Waits, Carried
    <3>2. Tells(Carried(stale'), published')
      BY <1>0, <1>1, <3>1, ShortFacts, EventNames
    <3> QED
      BY <3>2 DEF Signed, Otherwise, Carried
  <2>5. CASE missed >= MaxOutput \/ cursor >= MaxOutput
    BY <1>0, <1>1, <2>5, Numbers DEF Signed, Otherwise
  <2> QED
    BY <1>2, <2>2, <2>3, <2>4, <2>5 DEF ResyncComes
<1>3. CASE ~suspended
  <2>1. queue' = Append(queue, Offered) /\ queue \in Seq(Upto(end)) /\ Offered \in Upto(end)
    BY <1>0, <1>3, SeqGrows, OfferedFacts DEF Publish
  <2>2. CASE Sign(Offered, end)
    <3>1. Tells(queue', published')
      BY <1>0, <1>1, <2>1, <2>2, AppendFacts
    <3> QED
      BY <3>1 DEF Signed, Chain
  <2>3. CASE Offered = Exited /\ published = end
    <3>1. /\ Mute(queue) => Mute(queue')
          /\ Tells(queue, published) => Tells(queue', published')
      BY <1>0, <1>1, <2>1, <2>3, AppendFacts
    <3>2. published' = published
      BY <1>1, <2>3
    <3>3. Chain => Chain'
      BY <1>1, <3>1, <3>2 DEF Chain, Carried
    <3>4. Otherwise => Otherwise'
      BY <1>1, <3>2 DEF Otherwise, Carried
    <3> QED
      BY <3>3, <3>4 DEF Signed
  <2>4. published < end \/ published = end
    BY <1>0
  <2> QED
    BY <2>2, <2>3, <2>4, OfferedFacts
<1> QED
  BY <1>2, <1>3

(* A handler takes an event from the queue or flushes it. *)
LEMMA SignedByHandlers ==
  ASSUME Typed, Next, Signed, Take \/ StaleTake \/ Flush
  PROVE  Signed'
<1>0. /\ queue \in Seq(Upto(published)) /\ wire \in Seq(Upto(published))
      /\ published \in Nat
      /\ serving \in Handling(published) /\ stale \in Handling(published)
  BY Numbers DEF Typed
<1>1. UNCHANGED <<published, pending, batch, publisher, up, page, replay>>
  BY DEF Take, StaleTake, Flush, Taken, output, coordinator, client, renderer
<1>2. CASE Take
  <2>1. /\ UNCHANGED <<stale, wire>> /\ queue # <<>> /\ queue' = Tail(queue)
        /\ Carried(serving) = <<>> /\ Carried(serving') = <<Head(queue)>>
    BY <1>0, <1>2, TakenTypes, HandlerSteps DEF Take, Taken
  <2>2. /\ Mute(queue) => Mute(queue') /\ Head(queue) = Exited
        /\ Tells(queue, published) =>
             Tells(queue', published) \/ (Sign(Head(queue), published) /\ Mute(queue'))
    BY <1>0, <2>1, TailFacts
  <2>3. /\ Tells(Carried(serving'), published) <=> Sign(Head(queue), published)
        /\ Mute(Carried(serving')) <=> Head(queue) = Exited
        /\ ~ Tells(Carried(serving), published)
    BY <2>1, ShortFacts
  <2>4. Chain => Chain'
    BY <1>1, <2>1, <2>2, <2>3 DEF Chain, Carried
  <2>5. Otherwise => Otherwise'
    BY <1>1, <2>1, SeenKept DEF Otherwise, Seen, Carried
  <2> QED
    BY <2>4, <2>5 DEF Signed
<1>3. CASE StaleTake
  <2>1. /\ UNCHANGED <<serving, wire>> /\ queue # <<>> /\ queue' = Tail(queue)
        /\ Carried(stale) = <<>> /\ Carried(stale') = <<Head(queue)>>
    BY <1>0, <1>3, TakenTypes, HandlerSteps DEF StaleTake, Taken
  <2>2. /\ Mute(queue) => Mute(queue')
        /\ Tells(queue, published) =>
             Tells(queue', published) \/ Sign(Head(queue), published)
    BY <1>0, <2>1, TailFacts
  <2>3. /\ Tells(Carried(stale'), published) <=> Sign(Head(queue), published)
        /\ ~ Tells(Carried(stale), published)
    BY <2>1, ShortFacts
  <2>4. Chain => Chain' \/ Otherwise'
    BY <1>1, <2>1, <2>2, <2>3 DEF Chain, Otherwise, Carried
  <2>5. Otherwise => Otherwise'
    BY <1>1, <2>1, <2>3, SeenKept DEF Otherwise, Seen, Carried
  <2> QED
    BY <2>4, <2>5 DEF Signed
<1>4. CASE Flush
  <2>1. /\ UNCHANGED <<stale, queue>>
        /\ wire' = Append(wire, serving.event) /\ serving.event \in Upto(published)
        /\ Carried(serving) = <<serving.event>> /\ Carried(serving') = <<>>
    BY <1>0, <1>4, HandlerSteps, HandlerTypes DEF Flush, Flushable, coordinator
  <2>2. /\ Mute(wire) /\ serving.event = Exited => Mute(wire')
        /\ Sign(serving.event, published) => Tells(wire', published)
        /\ Tells(wire, published) /\ serving.event = Exited => Tells(wire', published)
    BY <1>0, <2>1, AppendFacts
  <2>3. /\ Tells(Carried(serving), published) <=> Sign(serving.event, published)
        /\ Mute(Carried(serving)) <=> serving.event = Exited
        /\ Mute(Carried(serving'))
    BY <2>1, ShortFacts
  <2>4. Chain => Chain'
    BY <1>1, <2>1, <2>2, <2>3 DEF Chain, Carried
  <2>5. Otherwise => Otherwise'
    BY <1>1, <2>1, SeenKept DEF Otherwise, Seen, Carried
  <2> QED
    BY <2>4, <2>5 DEF Signed
<1> QED
  BY <1>2, <1>3, <1>4

(* The oldest event that waits makes room, but never for the exit alone. *)
LEMMA KeptFacts ==
  ASSUME NEW S, NEW s \in Seq(S), Len(s) <= PendingLimit, NEW ev \in S, NEW n \in Nat
  PROVE  LET t == Append(Kept(s), ev) IN
         /\ Mute(s) /\ ev = Exited => Mute(t)
         /\ Sign(ev, n) => Tells(t, n)
         /\ Tells(s, n) /\ ev = Exited /\ NoExit(s) => Tells(t, n)
<1>1. PendingLimit \in Nat \ {0, 1}
  BY TerminalAssumption
<1>2. Kept(s) \in Seq(S)
  BY <1>1 DEF Kept
<1>3. Mute(s) => Mute(Kept(s))
  <2>1. CASE Len(s) = PendingLimit
    BY <1>1, <2>1, TailFacts DEF Kept
  <2> QED
    BY <2>1 DEF Kept
<1>4. ASSUME Tells(s, n), NoExit(s) PROVE Tells(Kept(s), n)
  <2>1. CASE Len(s) = PendingLimit
    <3>1. s # <<>> /\ Kept(s) = Tail(s)
      BY <1>1, <2>1 DEF Kept
    <3>2. /\ Len(Tail(s)) = Len(s) - 1 /\ NoExit(Tail(s))
          /\ Tells(Tail(s), n) \/ Mute(Tail(s))
      BY <1>4, <3>1, TailFacts
    <3>3. Len(Tail(s)) \in Nat \ {0}
      BY <1>1, <2>1, <3>2
    <3>4. ~ Mute(Tail(s))
      <4>1. \A t : NoExit(t) /\ Len(t) \in Nat \ {0} => ~ Mute(t)
        BY DEF Mute, NoExit
      <4> QED
        BY <3>2, <3>3, <4>1
    <3> QED
      BY <3>1, <3>2, <3>4
  <2> QED
    BY <1>4, <2>1 DEF Kept
<1> QED
  BY <1>2, <1>3, <1>4, AppendFacts

(* An event that the page gets leaves a sign if it was one. *)
LEMMA SignedByEmit ==
  ASSUME Typed, Next, NEW ev \in Upto(published), Emit(ev),
         UNCHANGED <<published, publisher, up, page>>, Carried(stale') = Carried(stale)
  PROVE  /\ Otherwise => Otherwise'
         /\ Sign(ev, published) => Otherwise'
<1>1. /\ replay \in Answers(start, end) /\ start \in Nat /\ end \in Nat
  BY Numbers DEF Typed
<1>2. replay' = replay \/ replay.call = "none"
  BY <1>1, EmitFacts, ReplayTypes
<1>3. Otherwise => Otherwise'
  BY <1>2, SeenKept DEF Otherwise, Seen, Carried
<1>4. Sign(ev, published) => Otherwise'
  BY EmitFacts DEF Otherwise
<1> QED
  BY <1>3, <1>4

LEMMA SignedByRenderer ==
  ASSUME Typed, Next, Connections, ExitOnce, Signed, Receive \/ RendererReady \/ EmitBatch
  PROVE  Signed'
<1>0. /\ wire \in Seq(Upto(published)) /\ pending \in Seq(Upto(published))
      /\ Len(pending) <= PendingLimit /\ batch \in Seq(Upto(published))
      /\ published \in Nat
  BY Numbers DEF Typed
<1>1. UNCHANGED <<published, queue, serving, stale, publisher, up, page>>
  BY DEF Receive, RendererReady, EmitBatch, output, coordinator, stream, renderer
<1>2. CASE Receive
  <2>1. wire # <<>> /\ wire' = Tail(wire) /\ batch' = batch
    BY <1>2 DEF Receive
  <2>2. /\ Head(wire) \in Upto(published)
        /\ Mute(wire) => Mute(wire') /\ Head(wire) = Exited
        /\ Tells(wire, published) =>
             Tells(wire', published) \/ (Sign(Head(wire), published) /\ Mute(wire'))
        /\ NoExit(wire) => Head(wire) # Exited
    BY <1>0, <2>1, TailFacts
  <2>3. CASE ready /\ Emit(Head(wire)) /\ UNCHANGED pending
    <3>1. (Otherwise => Otherwise') /\ (Sign(Head(wire), published) => Otherwise')
      BY <1>1, <2>2, <2>3, SignedByEmit DEF Carried
    <3>2. Chain => Chain' \/ Otherwise'
      BY <1>1, <2>1, <2>2, <2>3, <3>1 DEF Chain, Carried
    <3> QED
      BY <3>1, <3>2 DEF Signed
  <2>4. CASE /\ pending' = Append(Kept(pending), Head(wire))
             /\ UNCHANGED <<replay, cursor, history>>
    <3>1. /\ Mute(pending) /\ Head(wire) = Exited => Mute(pending')
          /\ Sign(Head(wire), published) => Tells(pending', published)
          /\ Tells(pending, published) /\ Head(wire) = Exited /\ NoExit(pending)
               => Tells(pending', published)
      BY <1>0, <2>2, <2>4, KeptFacts
    <3>2. Head(wire) = Exited => NoExit(pending)
      BY <2>2 DEF ExitOnce
    <3>3. Chain => Chain'
      BY <1>1, <2>1, <2>2, <3>1, <3>2 DEF Chain, Carried
    <3>4. Otherwise => Otherwise'
      BY <1>1, <2>4, SeenKept DEF Otherwise, Seen, Carried
    <3> QED
      BY <3>3, <3>4 DEF Signed
  <2> QED
    BY <1>2, <2>3, <2>4 DEF Receive
<1>3. CASE RendererReady
  <2>1. batch = <<>> /\ batch' = pending /\ pending' = <<>> /\ UNCHANGED <<wire, replay>>
    BY <1>3 DEF RendererReady, stream, renderer
  <2>2. ~ Tells(batch, published) /\ Mute(pending')
    BY <2>1, ShortFacts
  <2>3. Chain => Chain'
    BY <1>1, <2>1, <2>2 DEF Chain, Carried
  <2>4. Otherwise => Otherwise'
    BY <1>1, <2>1, SeenKept DEF Otherwise, Seen, Carried
  <2> QED
    BY <2>3, <2>4 DEF Signed
<1>4. CASE EmitBatch
  <2>1. /\ batch # <<>> /\ batch' = Tail(batch) /\ UNCHANGED <<wire, pending>>
        /\ Emit(Head(batch))
    BY <1>4 DEF EmitBatch, stream
  <2>2. /\ Head(batch) \in Upto(published)
        /\ Tells(batch, published) => Tells(batch', published) \/ Sign(Head(batch), published)
    BY <1>0, <2>1, TailFacts
  <2>3. (Otherwise => Otherwise') /\ (Sign(Head(batch), published) => Otherwise')
    BY <1>1, <2>1, <2>2, SignedByEmit DEF Carried
  <2>4. Chain => Chain' \/ Otherwise'
    BY <1>1, <2>1, <2>2, <2>3 DEF Chain, Carried
  <2> QED
    BY <2>3, <2>4 DEF Signed
<1> QED
  BY <1>2, <1>3, <1>4

LEMMA SignedByReplay ==
  ASSUME Typed, Next, Connections, Signed, Mount \/ Snapshot \/ SnapshotFails \/ Replayed
  PROVE  Signed'
<1>0. /\ replay \in Answers(start, end) /\ start \in Nat /\ end \in Nat
      /\ published \in Nat /\ published <= end /\ cursor \in Nat
  BY Numbers DEF Typed
<1>1. UNCHANGED <<published, queue, serving, stale, wire, pending, batch, publisher, up>>
  BY DEF Mount, Snapshot, SnapshotFails, Replayed, output, coordinator, stream, client
<1>2. Chain => Chain'
  BY <1>1 DEF Chain, Carried
<1>3. CASE Mount \/ Snapshot \/ SnapshotFails
  <2>1. \/ replay'.call \in {"asked", "failed"}
        \/ replay'.call = "answered" /\ replay'.end = end
    BY <1>3 DEF Mount, Snapshot, SnapshotFails
  <2> QED
    BY <1>0, <1>1, <2>1 DEF Signed, Otherwise
<1>4. CASE Replayed
  <2>1. page # "loading" /\ replay.call \in {"answered", "failed"}
    BY <1>0, <1>4, ReplayTypes DEF Replayed, Connections
  <2>2. replay.call = "failed" => published <= missed' \/ published <= cursor'
    BY <1>4, <2>1, ReplayedFacts
  <2>3. replay.call = "answered" /\ replay.end >= published => published <= cursor'
    <3>1. cursor' \in Nat
      BY TypedKeeps, Numbers DEF Typed, Offsets
    <3> QED
      BY <1>0, <1>4, <2>1, <3>1, ReplayedFacts, ReplayTypes
  <2>4. Otherwise => Otherwise'
    BY <1>1, <2>1, <2>2, <2>3, SeenKept DEF Otherwise, Seen, Carried
  <2> QED
    BY <1>2, <2>4 DEF Signed
<1> QED
  BY <1>3, <1>4

LEMMA SignedKeeps ==
  ASSUME IndInv, Next
  PROVE  Signed'
<1>0. /\ Typed /\ Connections /\ QueueSigned /\ ResyncComes /\ Signed /\ ExitOnce
      /\ serving \in Handling(published) /\ stale \in Handling(published) /\ published \in Nat
  BY Numbers DEF IndInv, Typed
<1>1. CASE Record \/ Exit \/ Close
  <2>1. /\ UNCHANGED <<queue, published, wire, pending, batch, serving, stale>>
        /\ UNCHANGED <<publisher, up, page, replay>>
    BY <1>1 DEF Record, Exit, Close, coordinator, stream, client, renderer
  <2> QED
    BY <1>0, <2>1, SignedStays DEF Carried
<1>2. CASE Overflow \/ DrainCheck \/ DrainReceive
  BY <1>2 DEF Overflow, DrainCheck, DrainReceive, Signed, Otherwise
<1>3. CASE Drained
  <2>1. queue' = <<Resync>> /\ published' \in Nat
    BY <1>3, Numbers, <1>0 DEF Drained, Offer
  <2>2. Tells(queue', published')
    BY <2>1, ShortFacts, EventNames
  <2> QED
    BY <2>2 DEF Signed, Chain
<1>4. CASE Clear
  <2>1. /\ UNCHANGED <<queue, published, wire, pending, batch, stale>>
        /\ UNCHANGED <<publisher, up, page, replay>>
        /\ Carried(serving') = Carried(serving)
    BY <1>0, <1>4, HandlerSteps DEF Clear, Cleared, output, client, renderer
  <2> QED
    BY <1>0, <2>1, SignedStays DEF Carried
<1>5. CASE StaleClear
  <2>1. /\ UNCHANGED <<queue, published, wire, pending, batch, serving>>
        /\ UNCHANGED <<publisher, up, page, replay>>
        /\ Carried(stale') = Carried(stale)
    BY <1>0, <1>5, HandlerSteps DEF StaleClear, Cleared, output, client, renderer
  <2> QED
    BY <1>0, <2>1, SignedStays DEF Carried
<1>6. CASE StaleFlush
  <2>1. published' = published /\ Ignored(published) /\ UNCHANGED cursor
    BY <1>6 DEF StaleFlush, output, renderer
  <2> QED
    BY <1>0, <2>1, IgnoredFacts, Numbers DEF Signed, Otherwise
<1>7. CASE StaleEncodeFails
  <2>1. /\ published' = published /\ UNCHANGED cursor
        /\ Ignored(published) \/ Ignored(MaxOutput)
    BY <1>7 DEF StaleEncodeFails, output, renderer
  <2>2. /\ missed' \in Nat /\ cursor' \in Nat
        /\ \/ published <= missed' \/ published <= cursor'
           \/ MaxOutput <= missed' \/ MaxOutput <= cursor'
    BY <1>0, <2>1, IgnoredFacts, Numbers DEF Offsets
  <2> QED
    BY <1>0, <2>1, <2>2, Numbers DEF Signed, Otherwise
<1>8. CASE StaleDone
  <2>1. /\ UNCHANGED <<queue, published, wire, pending, batch, serving>>
        /\ UNCHANGED <<publisher, up, page, replay>>
        /\ Carried(stale') = <<>> /\ Carried(stale) = <<>>
    BY <1>0, <1>8, HandlerSteps, HandlerTypes DEF StaleDone, output, coordinator, client, renderer
  <2> QED
    BY <1>0, <2>1, SignedStays DEF Carried
<1>9. CASE Break \/ ConnectFails
  BY <1>9 DEF Break, ConnectFails, stream, Signed, Otherwise
<1>10. CASE Connect
  <2>1. /\ UNCHANGED <<queue, published>> /\ wire' = <<Connected>>
        /\ Carried(serving') = <<>>
    BY <1>0, <1>10, HandlerTypes DEF Connect, output, coordinator
  <2>2. Tells(wire', published') /\ Mute(Carried(serving'))
    BY <1>0, <2>1, ShortFacts, EventNames
  <2> QED
    BY <1>0, <2>1, <2>2 DEF Signed, Chain, QueueSigned, Carried
<1> QED
  BY <1>0, <1>1, <1>2, <1>3, <1>4, <1>5, <1>6, <1>7, <1>8, <1>9, <1>10,
     SignedByPublish, SignedByHandlers, SignedByRenderer, SignedByReplay DEF Next

-----------------------------------------------------------------------------
LEMMA InitInv == Init => IndInv
<1> SUFFICES ASSUME Init PROVE IndInv
  OBVIOUS
<1>0. MaxOutput \in Nat /\ QueueLimit \in Nat /\ WireLimit \in Nat /\ PendingLimit \in Nat
      /\ MaxFaults \in Nat
  BY TerminalAssumption
<1>1. /\ Gone \in Handling(0) /\ Carried(Gone) = <<>> /\ NoReplay \in Answers(0, 0)
  BY HandlerTypes, ReplayTypes
<1>2. Typed
  <2>1. <<>> \in Seq(Upto(0)) /\ Len(<<>>) = 0
    OBVIOUS
  <2>2. /\ published = 0 /\ start = 0 /\ end = 0 /\ cursor = 0 /\ missed = 0 /\ faults = 0
        /\ queue = <<>> /\ wire = <<>> /\ pending = <<>> /\ batch = <<>>
        /\ serving = Gone /\ stale = Gone /\ replay = NoReplay
        /\ skipped = {} /\ twice = {} /\ ~suspended /\ ~up /\ ~ready
        /\ suspended = FALSE /\ up = FALSE /\ ready = FALSE
        /\ terminal = "running" /\ publisher = "idle" /\ page = "loading"
    BY DEF Init
  <2>3. /\ serving \in Handling(published) /\ stale \in Handling(published)
        /\ replay \in Answers(start, end)
    BY <1>1, <2>2
  <2>4. /\ queue \in Seq(Upto(published)) /\ wire \in Seq(Upto(published))
        /\ pending \in Seq(Upto(published)) /\ batch \in Seq(Upto(published))
    BY <2>1, <2>2
  <2>5. /\ Len(queue) <= QueueLimit /\ Len(wire) <= WireLimit /\ Len(pending) <= PendingLimit
    BY <1>0, <2>1, <2>2
  <2>6. /\ end \in Offsets /\ start \in 0 .. end /\ published \in 0 .. end /\ cursor \in 0 .. end
        /\ missed \in Offsets /\ faults \in 0 .. MaxFaults
        /\ skipped \in SUBSET Offsets /\ twice \in SUBSET Offsets
    BY <1>0, <2>2 DEF Offsets
  <2>7. suspended \in BOOLEAN /\ up \in BOOLEAN /\ ready \in BOOLEAN
    BY <2>2
  <2> QED
    BY <2>2, <2>3, <2>4, <2>5, <2>6, <2>7 DEF Typed
<1>3. Connections /\ ShownOnce /\ ResyncComes
  BY DEF Init, Connections, ShownOnce, ResyncComes
<1>4. QueueSigned
  BY ShortFacts DEF Init, QueueSigned
<1>5. Signed
  BY DEF Init, Signed, Otherwise
<1>6. ExitOnce
  BY <1>1, ShortFacts DEF Init, ExitOnce
<1> QED
  BY <1>2, <1>3, <1>4, <1>5, <1>6 DEF IndInv

LEMMA StepKeeps == IndInv /\ [Next]_vars => IndInv'
<1> SUFFICES ASSUME IndInv, [Next]_vars PROVE IndInv'
  OBVIOUS
<1>1. CASE Next
  <2>1. Typed /\ Connections /\ QueueSigned /\ ResyncComes /\ ExitOnce /\ ShownOnce
    BY DEF IndInv
  <2> QED
    BY <1>1, <2>1, TypedKeeps, ConnectionsKeep, QueueSignedKeeps, ResyncComesKeeps,
       SignedKeeps, ExitOnceKeeps, ShownOnceKeeps DEF IndInv
<1>2. CASE UNCHANGED vars
  <2>1. /\ UNCHANGED <<terminal, end, start, published, publisher, queue, suspended>>
        /\ UNCHANGED <<serving, stale, wire, up, ready, pending, batch, page, replay>>
        /\ UNCHANGED <<cursor, skipped, twice, missed, faults>>
    BY <1>2 DEF vars, output, coordinator, stream, client, renderer, history
  <2>2. Typed' /\ Connections' /\ ShownOnce'
    BY <2>1 DEF IndInv, Typed, Connections, ShownOnce
  <2>3. QueueSigned' /\ ResyncComes'
    BY <2>1 DEF IndInv, QueueSigned, ResyncComes, Waits
  <2>4. Signed'
    BY <2>1 DEF IndInv, Signed, Otherwise, Chain, Carried
  <2>5. ExitOnce'
    BY <2>1 DEF IndInv, ExitOnce, Reading, Carried
  <2> QED
    BY <2>2, <2>3, <2>4, <2>5 DEF IndInv
<1> QED
  BY <1>1, <1>2

LEMMA Invariance == Spec => []IndInv
BY InitInv, StepKeeps, PTL DEF Spec

(* DetachedTerminal.TypeOK: the queue of the window, what a connection holds
   and what waits for the renderer stay within their limits. *)
THEOREM TerminalTypeCorrect == Spec => []TypeOK
<1>1. IndInv => TypeOK
  <2> SUFFICES ASSUME Typed PROVE TypeOK
    BY DEF IndInv
  <2>1. /\ 0 .. published \subseteq Offsets /\ 0 .. start \subseteq Offsets
        /\ 0 .. end \subseteq Offsets
    BY Numbers DEF Offsets
  <2>2. Upto(published) \subseteq Event
    BY <2>1 DEF Upto, Event
  <2>3. Handling(published) \subseteq Handler
    BY <2>2 DEF Handling, Handler
  <2>4. Answers(start, end) \subseteq Replay
    BY <2>1 DEF Answers, Replay
  <2>5. /\ queue \in Seq(Event) /\ wire \in Seq(Event) /\ pending \in Seq(Event)
        /\ batch \in Seq(Event)
    BY <2>2 DEF Typed
  <2>6. serving \in Handler /\ stale \in Handler /\ replay \in Replay
    BY <2>3, <2>4 DEF Typed
  <2> QED
    BY <2>5, <2>6 DEF Typed, TypeOK
<1> QED
  BY <1>1, Invariance, PTL

(* DetachedTerminal.ShownOnce: the renderer writes every chunk below its
   cursor once, unless the history had dropped it. *)
THEOREM TerminalShowsOnce == Spec => []ShownOnce
<1>1. IndInv => ShownOnce
  BY DEF IndInv
<1> QED
  BY <1>1, Invariance, PTL

(* DetachedTerminal.NothingForgotten: published output that is not shown is
   on its way, or will be asked for, or its only sign was thrown away. *)
THEOREM TerminalForgetsNothing == Spec => []NothingForgotten
<1>1. IndInv => NothingForgotten
  <2> SUFFICES ASSUME IndInv, cursor < published, ~ (published <= missed)
               PROVE  Underway
    BY DEF NothingForgotten
  <2>0. /\ Typed /\ published \in Nat /\ cursor \in Nat
        /\ replay \in Answers(start, end) /\ start \in Nat /\ end \in Nat
        /\ serving \in Handling(published) /\ stale \in Handling(published)
    BY Numbers DEF IndInv, Typed
  <2>1. \A ev : Sign(ev, published) /\ ev \in Upto(published) => Telling(ev)
    BY <2>0 DEF Sign, Telling, Upto
  <2>2. ASSUME NEW s \in Seq(Upto(published)), Tells(s, published)
        PROVE  \E i \in 1 .. Len(s) : Telling(s[i])
    <3>1. PICK i \in 1 .. Len(s) : Sign(s[i], published)
      BY <2>2 DEF Tells
    <3> QED
      BY <2>1, <3>1
  <2>3. ASSUME NEW h \in Handling(published), Tells(Carried(h), published)
        PROVE  h.step \in {"taken", "cleared"} /\ Telling(h.event)
    <3>0. h.step \in {"gone", "idle"} => ~ Tells(Carried(h), published)
      BY <2>0, HandlerSteps, ShortFacts
    <3>1. h.step \in {"taken", "cleared"} /\ Carried(h) = <<h.event>>
          /\ h.event \in Upto(published)
      BY <2>0, <2>3, <3>0, HandlerSteps
    <3> QED
      BY <2>1, <2>3, <3>1, ShortFacts
  <2>4. CASE Chain
    <3>1. /\ queue \in Seq(Upto(published)) /\ wire \in Seq(Upto(published))
          /\ pending \in Seq(Upto(published)) /\ batch \in Seq(Upto(published))
      BY DEF IndInv, Typed
    <3>2. \/ Tells(Carried(serving), published)
          \/ \E q \in {queue, wire, pending, batch} : Tells(q, published)
      BY <2>4 DEF Chain
    <3> QED
      BY <2>0, <2>2, <2>3, <3>1, <3>2 DEF Underway
  <2>5. CASE Otherwise
    <3>1. CASE replay.call \in {"asked", "failed", "answered"}
      <4>1. replay # NoReplay
        BY <2>0, <3>1, ReplayTypes
      <4> QED
        BY <4>1 DEF Underway
    <3>2. CASE Tells(Carried(stale), published)
      BY <2>0, <2>3, <3>2 DEF Underway
    <3> QED
      BY <2>0, <2>5, <3>1, <3>2 DEF Otherwise, Underway
  <2> QED
    BY <2>4, <2>5 DEF IndInv, Signed
<1> QED
  BY <1>1, Invariance, PTL
=============================================================================
