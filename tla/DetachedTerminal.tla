-------------------------- MODULE DetachedTerminal --------------------------
(***************************************************************************)
(* A terminal shown by a detached window, which is a process of its own.   *)
(* The reader of the PTY records output in a bounded history and offers it *)
(* to the window's bounded queue; a handler streams the queue over HTTP;   *)
(* the renderer writes what follows its cursor and replays a snapshot when *)
(* it is told to or sees a gap.                                            *)
(*                                                                         *)
(*   terminal     "stopped": closed before the reader has seen the end;    *)
(*                "closed": after it                                       *)
(*   end, start   the output so far, and where the history begins          *)
(*   published    the output that was offered to the queue                 *)
(*   publisher    how far the reader is in detachedCoordinator.publish; it *)
(*                holds the coordinator's mutex unless it is idle          *)
(*   serving, stale   the handlers of GET /events: that of the client's    *)
(*                connection, and one that has not noticed it is gone      *)
(*   wire         what the handler has flushed and the client not read     *)
(*   up           the client has a connection                              *)
(*   ready, pending, batch   detachedClient: events wait for the renderer  *)
(*   replay       the snapshot call under way                              *)
(*   cursor       the output the renderer has got to                       *)
(*   skipped, twice   output below cursor never or repeatedly written      *)
(*   missed       output whose only sign was thrown away (see Ignored)     *)
(*                                                                         *)
(* Output comes in chunks; offsets count chunks.                           *)
(***************************************************************************)
EXTENDS Naturals, Sequences

CONSTANTS QueueLimit,    \* the capacity of detachedWindow.events, 256
          PendingLimit,  \* what detachedClient keeps for the renderer, 256
          HistoryLimit,  \* terminalHistoryLimit
          WireLimit,     \* what the sockets hold before a flush blocks
          MaxOutput,     \* bound: chunks of output
          MaxFaults      \* bound: connections that break, calls that fail

ASSUME TerminalAssumption ==
  /\ QueueLimit \in Nat \ {0}
  /\ PendingLimit \in Nat \ {0, 1}  \* the exit must not push out the last output
  /\ HistoryLimit \in Nat \ {0} /\ WireLimit \in Nat \ {0}
  /\ MaxOutput \in Nat /\ MaxFaults \in Nat

VARIABLES terminal, end, start, published,
          publisher, queue, suspended,
          serving, stale, wire, up,
          ready, pending, batch,
          page, replay, cursor,
          skipped, twice, missed, faults

output == <<terminal, end, start, published>>
coordinator == <<publisher, queue, suspended>>
stream == <<serving, stale, wire, up>>
client == <<ready, pending, batch>>
renderer == <<page, replay, cursor>>
history == <<skipped, twice, missed>>
vars == <<output, coordinator, stream, client, renderer, history, faults>>

-----------------------------------------------------------------------------
Offsets == 0 .. MaxOutput

Event == [name : {"data"}, from : Offsets, to : Offsets]
           \cup [name : {"resync", "connected", "disconnected", "exit"}]

Resync == [name |-> "resync"]
Connected == [name |-> "connected"]
Disconnected == [name |-> "disconnected"]
Exited == [name |-> "exit"]
Data(from, to) == [name |-> "data", from |-> from, to |-> to]

Gone == [step |-> "gone"]
Idle == [step |-> "idle"]
Handler == [step : {"gone", "idle"}] \cup [step : {"taken", "cleared"}, event : Event]

NoReplay == [call |-> "none"]
Replay == [call : {"none", "asked", "failed"}]
            \cup [call : {"answered"}, start : Offsets, end : Offsets]

TypeOK ==
  /\ terminal \in {"running", "exiting", "exited", "stopped", "closed"}
  /\ end \in Offsets /\ start \in 0 .. end /\ published \in 0 .. end
  /\ publisher \in {"idle", "draining", "receiving"}
  /\ queue \in Seq(Event) /\ Len(queue) <= QueueLimit
  /\ suspended \in BOOLEAN
  /\ serving \in Handler /\ stale \in Handler
  /\ wire \in Seq(Event) /\ Len(wire) <= WireLimit
  /\ up \in BOOLEAN
  /\ ready \in BOOLEAN
  /\ pending \in Seq(Event) /\ Len(pending) <= PendingLimit
  /\ batch \in Seq(Event)
  /\ page \in {"loading", "replaying", "mounted"}
  /\ replay \in Replay
  /\ cursor \in 0 .. end
  /\ skipped \in SUBSET Offsets /\ twice \in SUBSET Offsets
  /\ missed \in Offsets
  /\ faults \in 0 .. MaxFaults

(* The window is registered; its process has not connected yet. *)
Init ==
  /\ terminal = "running" /\ end = 0 /\ start = 0 /\ published = 0
  /\ publisher = "idle" /\ queue = <<>> /\ suspended = FALSE
  /\ serving = Gone /\ stale = Gone /\ wire = <<>> /\ up = FALSE
  /\ ready = FALSE /\ pending = <<>> /\ batch = <<>>
  /\ page = "loading" /\ replay = NoReplay /\ cursor = 0
  /\ skipped = {} /\ twice = {} /\ missed = 0
  /\ faults = 0

-----------------------------------------------------------------------------
(* The reader of the PTY: it records a chunk, then publishes it. *)

(* recordOutput: when the history overflows a quarter more is dropped. *)
Record ==
  /\ terminal = "running" /\ published = end /\ publisher = "idle"
  /\ end < MaxOutput
  /\ end' = end + 1
  /\ start' = IF end + 1 - start > HistoryLimit
              THEN end + 1 - (HistoryLimit - HistoryLimit \div 4) ELSE start
  /\ UNCHANGED <<terminal, published, coordinator, stream, client, renderer,
                 history, faults>>

Exit ==
  /\ terminal = "running" /\ published = end /\ publisher = "idle"
  /\ terminal' = "exiting"
  /\ UNCHANGED <<end, start, published, coordinator, stream, client, renderer,
                 history, faults>>

Publishing == published < end \/ terminal \in {"exiting", "stopped"}

Offered == IF published < end THEN Data(published, end) ELSE Exited

(* What was offered is accounted for, sent or not. *)
Offer ==
  /\ published' = end
  /\ terminal' = IF published < end THEN terminal
                 ELSE IF terminal = "stopped" THEN "closed" ELSE "exited"
  /\ UNCHANGED <<end, start>>

(* publish: nothing is sent while a resync is on its way. *)
Publish ==
  /\ Publishing /\ publisher = "idle"
  /\ suspended \/ Len(queue) < QueueLimit
  /\ queue' = IF suspended THEN queue ELSE Append(queue, Offered)
  /\ Offer
  /\ UNCHANGED <<publisher, suspended, stream, client, renderer, history, faults>>

Overflow ==
  /\ Publishing /\ publisher = "idle"
  /\ ~suspended /\ Len(queue) = QueueLimit
  /\ publisher' = "draining"
  /\ UNCHANGED <<output, queue, suspended, stream, client, renderer, history, faults>>

(* for len(w.events) > 0 { <-w.events }: a check and a blocking receive. *)
DrainCheck ==
  /\ publisher = "draining" /\ queue # <<>>
  /\ publisher' = "receiving"
  /\ UNCHANGED <<output, queue, suspended, stream, client, renderer, history, faults>>

DrainReceive ==
  /\ publisher = "receiving" /\ queue # <<>>
  /\ queue' = Tail(queue)
  /\ publisher' = "draining"
  /\ UNCHANGED <<output, suspended, stream, client, renderer, history, faults>>

Drained ==
  /\ publisher = "draining" /\ queue = <<>>
  /\ queue' = <<Resync>>
  /\ suspended' = TRUE
  /\ publisher' = "idle"
  /\ Offer
  /\ UNCHANGED <<stream, client, renderer, history, faults>>

(* termManager.close, by the reader after the exit or by a user or the
   application's end at any time: the session and its history are gone. *)
Close ==
  /\ terminal \in {"running", "exiting", "exited"}
  /\ terminal' = IF terminal = "exited" THEN "closed" ELSE "stopped"
  /\ UNCHANGED <<end, start, published, coordinator, stream, client, renderer,
                 history, faults>>

-----------------------------------------------------------------------------
(* The handlers of GET /events: h, and handler, what h is after the step. *)

(* The receive takes no lock. *)
Taken(h, handler) ==
  /\ h.step = "idle" /\ queue # <<>>
  /\ handler = [step |-> "taken", event |-> Head(queue)]
  /\ queue' = Tail(queue)
  /\ UNCHANGED <<output, publisher, suspended, wire, up, client, renderer,
                 history, faults>>

(* The encoded resync is in the response's buffer; then the flag is cleared. *)
Cleared(h, handler) ==
  /\ h.step = "taken" /\ h.event = Resync /\ publisher = "idle"
  /\ handler = [h EXCEPT !.step = "cleared"]
  /\ suspended' = FALSE
  /\ UNCHANGED <<output, publisher, queue, wire, up, client, renderer, history, faults>>

(* Fault: the event is flushed and the flag stays. *)
FlushableAtOnce(h) == h.step = "taken"

Flushable(h) == h.step = "cleared" \/ (h.step = "taken" /\ h.event # Resync)

Take == Taken(serving, serving') /\ UNCHANGED stale
Clear == Cleared(serving, serving') /\ UNCHANGED stale

Flush ==
  /\ Flushable(serving)
  /\ Len(wire) < WireLimit
  /\ wire' = Append(wire, serving.event)
  /\ serving' = Idle
  /\ UNCHANGED <<output, coordinator, stale, up, client, renderer, history, faults>>

(* Output up to offset b gave no sign that will reach the renderer. *)
Ignored(b) == missed' = IF b > missed /\ b > cursor THEN b ELSE missed

(* On the dead connection an event is written to nobody ... *)
StaleTake == Taken(stale, stale') /\ UNCHANGED serving
StaleClear == Cleared(stale, stale') /\ UNCHANGED serving

StaleFlush ==
  /\ Flushable(stale)
  /\ stale' = Idle
  /\ Ignored(published)
  /\ UNCHANGED <<output, coordinator, serving, wire, up, client, renderer,
                 skipped, twice, faults>>

(* ... or the write fails and the handler returns: a resync is lost with the
   flag set, and no output is sent any more. *)
StaleEncodeFails ==
  /\ stale.step = "taken"
  /\ stale' = Gone
  /\ Ignored(IF stale.event = Resync THEN MaxOutput ELSE published)
  /\ UNCHANGED <<output, coordinator, serving, wire, up, client, renderer,
                 skipped, twice, faults>>

StaleDone ==
  /\ stale.step = "idle"
  /\ stale' = Gone
  /\ UNCHANGED <<output, coordinator, serving, wire, up, client, renderer,
                 history, faults>>

Fault == faults < MaxFaults /\ faults' = faults + 1

(* Fault: the events that wait are not bounded. *)
KeptAll(waiting) == waiting

(* dispatch: the oldest event makes room. *)
Kept(waiting) == IF Len(waiting) = PendingLimit THEN Tail(waiting) ELSE waiting

(* eventLoop dispatches what the page only shows, but takes room like others. *)
Told == pending' = IF ready THEN pending ELSE Append(Kept(pending), Disconnected)

(* At most one handler of a dead connection is left over. *)
Break ==
  /\ up /\ stale = Gone
  /\ Fault
  /\ up' = FALSE
  /\ wire' = <<>>
  /\ stale' = serving
  /\ serving' = Gone
  /\ Told
  /\ UNCHANGED <<output, coordinator, ready, batch, renderer, history>>

ConnectFails ==
  /\ ~up
  /\ Fault
  /\ Told
  /\ UNCHANGED <<output, coordinator, stream, ready, batch, renderer, history>>

(* eventLoop connects, again after a pause; both checks take the mutex. *)
Connect ==
  /\ ~up /\ publisher = "idle"
  /\ up' = TRUE
  /\ serving' = Idle
  /\ wire' = <<Connected>>
  /\ UNCHANGED <<output, coordinator, stale, client, renderer, history, faults>>

-----------------------------------------------------------------------------
(* The renderer. *)

(* replayTerminal: one call at a time; another is ignored. *)
AskReplay ==
  IF replay = NoReplay
  THEN replay' = [call |-> "asked"] /\ UNCHANGED missed
  ELSE UNCHANGED replay /\ Ignored(published)

(* xterm.write of the output in (from, to]. *)
Written(from, to) ==
  /\ twice' = twice \cup ((from + 1 .. to) \cap ((1 .. cursor) \ skipped))
  /\ skipped' = skipped \cup (cursor + 1 .. from)
  /\ cursor' = to
  /\ missed' = IF missed > to THEN missed ELSE 0

(* Fault: the cursor is not looked at. *)
FollowsAnyhow(from) == TRUE

Follows(from) == from <= cursor

(* handleTerminalData: known output is skipped, a gap is not jumped. *)
Show(ev) ==
  \/ /\ ev.to <= cursor
     /\ UNCHANGED <<replay, cursor, history>>
  \/ /\ ev.to > cursor /\ ~Follows(ev.from)
     /\ AskReplay
     /\ UNCHANGED <<cursor, skipped, twice>>
  \/ /\ ev.to > cursor /\ Follows(ev.from)
     /\ Written(IF ev.from > cursor THEN ev.from ELSE cursor, ev.to)
     /\ UNCHANGED replay

(* An event reaches the page. *)
Emit(ev) ==
  \/ ev.name = "data" /\ Show(ev)
  \/ ev.name \in {"resync", "connected"} /\ AskReplay /\ UNCHANGED <<cursor, skipped, twice>>
  \/ ev.name \in {"exit", "disconnected"} /\ UNCHANGED <<replay, cursor, history>>

Receive ==
  /\ wire # <<>>
  /\ wire' = Tail(wire)
  /\ \/ /\ ready
        /\ Emit(Head(wire))
        /\ UNCHANGED pending
     \/ /\ ~ready
        /\ pending' = Append(Kept(pending), Head(wire))
        /\ UNCHANGED <<replay, cursor, history>>
  /\ UNCHANGED <<output, coordinator, serving, stale, up, ready, batch, page, faults>>

(* mountTerminal subscribes, asks for a snapshot and waits for it. *)
Mount ==
  /\ page = "loading"
  /\ page' = "replaying"
  /\ replay' = [call |-> "asked"]
  /\ UNCHANGED <<output, coordinator, stream, client, cursor, history, faults>>

(* DetachedRendererReady comes after that call; markRendererReady empties
   pending batch by batch until nothing has come in between. *)
RendererReady ==
  /\ page = "mounted" /\ ~ready /\ batch = <<>>
  /\ batch' = pending
  /\ pending' = <<>>
  /\ ready' = (pending = <<>>)
  /\ UNCHANGED <<output, coordinator, stream, renderer, history, faults>>

EmitBatch ==
  /\ batch # <<>>
  /\ Emit(Head(batch))
  /\ batch' = Tail(batch)
  /\ UNCHANGED <<output, coordinator, stream, ready, pending, page, faults>>

(* The RPC of the snapshot; it needs the mutex for its window. *)
Snapshot ==
  /\ replay.call = "asked" /\ publisher = "idle"
  /\ replay' = IF terminal \in {"stopped", "closed"} THEN [call |-> "failed"]
               ELSE [call |-> "answered", start |-> start, end |-> end]
  /\ UNCHANGED <<output, coordinator, stream, client, page, cursor, history, faults>>

(* The call runs out of its five seconds. *)
SnapshotFails ==
  /\ replay.call = "asked"
  /\ Fault
  /\ replay' = [call |-> "failed"]
  /\ UNCHANGED <<output, coordinator, stream, client, page, cursor, history>>

(* The answer is written from the cursor on; a failed one is reported. *)
Replayed ==
  /\ replay.call \in {"answered", "failed"}
  /\ replay' = NoReplay
  /\ page' = "mounted"
  /\ \/ /\ replay.call = "failed"
        /\ Ignored(published)
        /\ UNCHANGED <<cursor, skipped, twice>>
     \/ /\ replay.call = "answered" /\ replay.end > cursor
        /\ Written(IF replay.start > cursor THEN replay.start ELSE cursor, replay.end)
     \/ /\ replay.call = "answered" /\ replay.end <= cursor
        /\ UNCHANGED <<cursor, history>>
  /\ UNCHANGED <<output, coordinator, stream, client, faults>>

Next ==
  \/ Record \/ Exit \/ Publish \/ Overflow \/ DrainCheck \/ DrainReceive \/ Drained
  \/ Close
  \/ Take \/ Clear \/ Flush
  \/ StaleTake \/ StaleClear \/ StaleFlush \/ StaleEncodeFails \/ StaleDone
  \/ Break \/ Connect \/ ConnectFails
  \/ Receive \/ Mount \/ RendererReady \/ EmitBatch
  \/ Snapshot \/ SnapshotFails \/ Replayed

Spec == Init /\ [][Next]_vars

-----------------------------------------------------------------------------
(* The renderer writes every chunk below its cursor once, in order, unless
   the history had already dropped it: whatever is lost, repeated or replayed
   on the way, a detached terminal shows no garbled stream. *)
ShownOnce == twice = {} /\ skipped \subseteq 1 .. start

(* Something that will make the renderer look at its cursor again. *)
Telling(ev) == ev.name \in {"resync", "connected"} \/ (ev.name = "data" /\ ev.to > cursor)

Underway ==
  \/ publisher # "idle" \/ ~up \/ page = "loading" \/ replay # NoReplay
  \/ \E q \in {queue, wire, pending, batch} : \E i \in 1 .. Len(q) : Telling(q[i])
  \/ \E h \in {serving, stale} : h.step \in {"taken", "cleared"} /\ Telling(h.event)

(* Published output that the window does not show is on its way, or will be
   asked for: no overflow and no late renderer loses output silently, nor does
   the order in which a resync is taken and its flag cleared.  It says nothing
   of output whose only sign the code throws away (missed): a replay that is
   ignored while an older one is under way, an event that a dead connection's
   handler takes, and a resync that this handler fails to write, after which
   the flag stays. *)
NothingForgotten == cursor < published => Underway \/ published <= missed

(* "A stalled renderer must never block a CLI" (publish). *)
PublisherGoesOn == publisher # "idle" ~> publisher = "idle"

(* Goroutines and the page go on when they can; nothing obliges the CLI to
   print or to end, nor a connection to break. *)
Fairness ==
  /\ WF_vars(Publish) /\ WF_vars(Overflow)
  /\ WF_vars(DrainCheck) /\ WF_vars(DrainReceive) /\ WF_vars(Drained)
  /\ WF_vars(Take) /\ WF_vars(Clear) /\ WF_vars(Flush)
  /\ WF_vars(Connect) /\ WF_vars(Receive)
  /\ WF_vars(Mount) /\ WF_vars(RendererReady) /\ WF_vars(EmitBatch)
  /\ WF_vars(Snapshot) /\ WF_vars(Replayed)

FairSpec == Spec /\ Fairness
=============================================================================
