------------------------------- MODULE Relay -------------------------------
(***************************************************************************)
(* tools/input/relay.py on the host and the daemon it talks to over the    *)
(* guest's UART, tools/input/dvm_input.c.  A relay forwards the pointer    *)
(* states QEMU captures in a file, or sends one prepared gesture; it has   *)
(* one packet in flight and never sends one again.  A relay may fail or be *)
(* killed, even in the middle of a line, and the operator starts another.  *)
(***************************************************************************)
EXTENDS HostProgram, Integers, Sequences, SequencesExt

CONSTANTS
    QueueMax,     \* 64 in the code
    RecapMax,     \* 512 in the code: the points of a Recap stream
    MaxCaptured,  \* bound on the pointer states of a behaviour
    MaxRelays     \* bound on the relays started

ASSUME RelayAssumption ==
    QueueMax \in Nat \ {0} /\ RecapMax \in Nat \ {0} /\ MaxCaptured \in Nat /\ MaxRelays \in Nat

VARIABLES
    mode,      \* the relay's option, or "stream"
    recap,     \* --backend recap
    rpc,       \* "loop", "returned", "failed", "killed", "none"
    captured,  \* the events file: a sequence of button states, TRUE is down
    base,      \* length of the file when the relay opened it
    unread,    \* position in the file
    queue,     \* records [down, pos, edge]
    sent,      \* the records of the queue that were sent (history)
    steps,     \* swipe_steps, home_steps: packets still to send
    pending,   \* 0 or the sequence number in flight
    sequence,  \* the last sequence number used
    lastSent,  \* button state of this relay's last T and R packet (history)
    wire,      \* lines on the way to the guest: packets or Junk
    partial,   \* the UART holds an incomplete line
    acks,      \* DVM_INPUT_ACK lines on the way to the relay
    last,      \* guest: input_loop's last
    down,      \* guest: input_loop's down
    stream,    \* guest: NoStream, or recap_points of recap_stream, up to RecapMax
    starts     \* relays started

hostVars == <<mode, recap, base, lastSent, starts>>
guestVars == <<last, down, stream>>
relayVars == <<hostVars, rpc, captured, unread, queue, sent, steps, pending, sequence, wire,
               partial, acks, guestVars>>

NoStream == -1
Contacts == {"T", "R"}
Modes == {"stream", "home", "ping", "release", "tap", "swipe"}
Junk == [seq |-> 0, kind |-> "junk", down |-> FALSE]

Button(d) == IF d THEN "down" ELSE "up"
Step(k, d) == [kind |-> k, down |-> d]

\* tap_steps, swipe_steps (two points stand for the 21) and home_steps.
StepsOf(m, r) ==
    CASE m = "home" -> <<Step("H", TRUE), Step("H", FALSE)>>
      [] m = "ping" -> <<Step("S", FALSE)>>
      [] m = "release" -> <<Step("T", FALSE)>>
      [] m = "tap" -> IF r THEN <<Step("R", TRUE), Step("R", FALSE)>> ELSE <<Step("P", FALSE)>>
      [] m = "swipe" -> <<Step("R", TRUE), Step("R", TRUE), Step("R", FALSE)>>
      [] OTHER -> <<>>

RelayInit ==
    /\ mode = "stream" /\ recap = FALSE /\ rpc = "none" /\ captured = <<>> /\ base = 0 /\ unread = 0
    /\ queue = <<>> /\ sent = <<>> /\ steps = <<>> /\ pending = 0 /\ sequence = 0
    /\ lastSent = [k \in Contacts |-> "none"] /\ wire = <<>> /\ partial = FALSE /\ acks = <<>>
    /\ last = 0 /\ down = FALSE /\ stream = NoStream /\ starts = 0

\* main up to its loop: the file is opened at its end unless --replay-existing,
\* and a newline ends any line an earlier writer left incomplete.  Replies sent
\* while nobody was connected are gone; time has passed, so the numbers made
\* from the clock are new.
ResyncMutant == wire
Resync == IF partial THEN Append(wire, Junk) ELSE wire

Start(m, r, replay) ==
    /\ program = "relay" /\ rpc # "loop" /\ starts < MaxRelays
    /\ mode' = m /\ recap' = r /\ rpc' = "loop" /\ steps' = StepsOf(m, r)
    /\ base' = IF replay THEN 0 ELSE Len(captured)
    /\ unread' = base' /\ queue' = <<>> /\ sent' = <<>> /\ pending' = 0
    /\ lastSent' = [k \in Contacts |-> "none"] /\ acks' = <<>> /\ starts' = starts + 1
    /\ wire' = Resync
    /\ partial' = (partial /\ Resync = wire)
    /\ UNCHANGED <<program, captured, sequence, guestVars>>

\* QEMU appends a pointer state to the events file.
Capture(d) ==
    /\ program = "relay" /\ Len(captured) < MaxCaptured
    /\ captured' = Append(captured, d)
    /\ UNCHANGED <<program, hostVars, rpc, unread, queue, sent, steps, pending, sequence, wire,
                   partial, acks, guestVars>>

\* enqueue: the most recent position supersedes motion, but never an edge.
SupersedesMutant(q, d) == q # <<>> /\ Last(q).down = d
Supersedes(q, d) == q # <<>> /\ Last(q).down = d /\ ~Last(q).edge

Enqueue(q, d, pos) ==
    IF Supersedes(q, d)
    THEN [q EXCEPT ![Len(q)] = [down |-> d, pos |-> pos, edge |-> FALSE]]
    ELSE Append(q, [down |-> d, pos |-> pos, edge |-> ~(q # <<>> /\ Last(q).down = d)])

\* One line of the events file; a full queue ends the relay.
ReadEvent ==
    /\ program = "relay" /\ rpc = "loop" /\ unread < Len(captured)
    /\ LET d == captured[unread + 1] IN
       IF ~Supersedes(queue, d) /\ Len(queue) >= QueueMax
       THEN rpc' = "failed" /\ UNCHANGED <<unread, queue>>
       ELSE /\ queue' = Enqueue(queue, d, unread + 1)
            /\ unread' = unread + 1 /\ UNCHANGED rpc
    /\ UNCHANGED <<program, hostVars, captured, sent, steps, pending, sequence, wire, partial,
                   acks, guestVars>>

\* A reply: other sequence numbers are passed over, a refusal ends the relay.
AckMatchesMutant(a) == pending # 0
AckMatches(a) == pending # 0 /\ a.seq = pending

Receive ==
    /\ program = "relay" /\ rpc = "loop" /\ acks # <<>>
    /\ acks' = Tail(acks)
    /\ \/ ~AckMatches(Head(acks)) /\ UNCHANGED <<pending, rpc>>
       \/ AckMatches(Head(acks)) /\ Head(acks).ok /\ pending' = 0 /\ UNCHANGED rpc
       \/ AckMatches(Head(acks)) /\ ~Head(acks).ok /\ rpc' = "failed" /\ UNCHANGED pending
    /\ UNCHANGED <<program, hostVars, captured, unread, queue, sent, steps, sequence, wire,
                   partial, guestVars>>

\* --ack-timeout: never retried, the relay ends.
Timeout ==
    /\ program = "relay" /\ rpc = "loop" /\ pending # 0
    /\ rpc' = "failed"
    /\ UNCHANGED <<program, hostVars, captured, unread, queue, sent, steps, pending, sequence,
                   wire, partial, acks, guestVars>>

\* The next packet: prepared steps first, then the queue.
NextRecord ==
    IF steps # <<>> THEN Head(steps)
    ELSE Step(IF recap THEN "R" ELSE "T", Head(queue).down)

SendPacket ==
    /\ program = "relay" /\ rpc = "loop" /\ pending = 0 /\ (steps # <<>> \/ queue # <<>>)
    /\ sequence' = sequence + 1 /\ pending' = sequence + 1
    /\ steps' = IF steps # <<>> THEN Tail(steps) ELSE steps
    /\ queue' = IF steps # <<>> THEN queue ELSE Tail(queue)
    /\ sent' = IF steps # <<>> THEN sent ELSE Append(sent, Head(queue))
    /\ lastSent' = [k \in Contacts |-> IF NextRecord.kind = k THEN Button(NextRecord.down)
                                                             ELSE lastSent[k]]
    /\ \/ /\ wire' = Append(wire, IF partial THEN Junk
                                  ELSE [seq |-> sequence + 1, kind |-> NextRecord.kind,
                                        down |-> NextRecord.down])
          /\ partial' = FALSE /\ UNCHANGED rpc
       \/ wire' = wire /\ partial' = TRUE /\ rpc' = "killed"     \* in the middle of the line
    /\ UNCHANGED <<program, mode, recap, base, starts, captured, unread, acks, guestVars>>

\* A relay with an option returns when everything was acknowledged.
Return ==
    /\ program = "relay" /\ rpc = "loop" /\ pending = 0 /\ steps = <<>> /\ queue = <<>>
    /\ mode # "stream" /\ rpc' = "returned"
    /\ UNCHANGED <<program, hostVars, captured, unread, queue, sent, steps, pending, sequence,
                   wire, partial, acks, guestVars>>

\* The operator ends the relay, or the UART disconnects.
Kill ==
    /\ program = "relay" /\ rpc = "loop" /\ rpc' = "killed"
    /\ UNCHANGED <<program, hostVars, captured, unread, queue, sent, steps, pending, sequence,
                   wire, partial, acks, guestVars>>

\* post_recap: the first R with the button down makes a stream, every one adds a
\* point, and a lift plays it and drops it.  A stream that could not be made or
\* measured stays as it was.
StreamAfter(d, ok) ==
    LET points == IF stream = NoStream THEN 0 ELSE stream IN
    IF stream = NoStream /\ ~d THEN {NoStream}
    ELSE IF d THEN (IF ok THEN {IF points < RecapMax THEN points + 1 ELSE points} ELSE {stream, points})
    ELSE (IF ok THEN {NoStream} ELSE {NoStream, stream})

\* input_loop: a malformed or old line is rejected without a reply; P needs the
\* finger up; a post may fail; only T moves the contact, only R the stream.
Accepts(p) == p.kind # "junk" /\ p.seq > last
Posted(p, posted) ==
    \/ p.kind = "S" \/ (p.kind = "R" /\ ~p.down /\ stream = NoStream)
    \/ posted /\ (p.kind = "P" => ~down)

GuestLine(posted) ==
    /\ program = "relay" /\ wire # <<>>
    /\ wire' = Tail(wire)
    /\ LET p == Head(wire)
           ok == Posted(p, posted) IN
       IF Accepts(p)
       THEN /\ last' = p.seq
            /\ down' = IF p.kind = "T" /\ ok THEN p.down ELSE down
            /\ stream' \in IF p.kind = "R" THEN StreamAfter(p.down, ok) ELSE {stream}
            /\ acks' = IF rpc = "loop" THEN Append(acks, [seq |-> p.seq, ok |-> ok]) ELSE acks
       ELSE UNCHANGED <<guestVars, acks>>
    /\ UNCHANGED <<program, hostVars, rpc, captured, unread, queue, sent, steps, pending,
                   sequence, partial>>

\* The daemon's console ends: it lifts a finger it holds, and exits.  launchd
\* starts it again, with a new contact, no stream and no last number.
GuestRestart ==
    /\ program = "relay" /\ last > 0
    /\ last' = 0 /\ down' = FALSE /\ stream' = NoStream
    /\ UNCHANGED <<program, hostVars, rpc, captured, unread, queue, sent, steps, pending,
                   sequence, wire, partial, acks>>

RelayNext ==
    \/ \E m \in Modes, r, replay \in BOOLEAN : Start(m, r, replay)
    \/ \E d \in BOOLEAN : Capture(d)
    \/ ReadEvent \/ Receive \/ Timeout \/ SendPacket \/ Return \/ Kill
    \/ \E posted \in BOOLEAN : GuestLine(posted)
    \/ GuestRestart

-----------------------------------------------------------------------------
(* Correctness. *)

\* "Coalesce consecutive motion states, preserve press/release transitions": of
\* what a relay has read, every state that changes the button and the most
\* recent one are queued or were sent, in their order.
Forwarded == [i \in 1..(Len(sent) + Len(queue)) |-> (sent \o queue)[i].pos]
IsEdge(i) == i = base + 1 \/ captured[i] # captured[i - 1]
EdgesKept ==
    /\ \A i \in (base + 1)..unread : IsEdge(i) \/ i = unread => i \in ToSet(Forwarded)
    /\ \A i, j \in DOMAIN Forwarded : i < j => Forwarded[i] < Forwarded[j]

\* An acknowledged lift is the guest's: a --release that returns has raised the
\* finger, and a --swipe that returns has left no Recap stream half filled,
\* whatever an earlier relay left on the wire or in the guest and however late its
\* replies come.  (Until such a lift, the points of a gesture that an earlier relay
\* did not finish are part of the next one's.)
FingerLifted ==
    pending = 0 /\ rpc \in {"loop", "returned"} =>
        /\ lastSent["T"] = "up" => ~down
        /\ lastSent["R"] = "up" => stream = NoStream

\* The packet in flight is on its way to the guest, or its reply is on its way
\* back: a line cut off by an earlier relay never swallows it.
PacketReaches ==
    rpc = "loop" /\ pending # 0 =>
        \/ \E p \in ToSet(wire) : p.seq = pending
        \/ \E a \in ToSet(acks) : a.seq = pending

=============================================================================
