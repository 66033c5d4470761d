--------------------------- MODULE HostToolsProofs ---------------------------
(***************************************************************************)
(* The installer leaves a settled child, the relay's acknowledgements mean *)
(* what it takes them to mean and no press or lift is coalesced away, and  *)
(* the warm-boot probes leave a settled guest and a true verdict, for      *)
(* every set of files and any number of events, relays and log lines.      *)
(***************************************************************************)
EXTENDS HostTools, TLAPS

-----------------------------------------------------------------------------
(* The installer. *)

\* The marker follows sync, the host passes the marker before it quits QEMU,
\* and a QEMU that runs is held by proc until it ended.
InstInv ==
    /\ script \in {"synced", "marked"} => stored = Files
    /\ stored \subseteq cached /\ cached \subseteq Files
    /\ ipc \in {"quit", "seal", "report"} => script = "marked"
    /\ ipc \in {"seal", "report"} => qemu = "ended"
    /\ ipc \in {"pin", "create", "launch"} => qemu = "none"
    /\ qemu = "running" => owned
    /\ qemu = "paused" => onFailure = "pause"
    /\ onFailure \in {"quit", "pause"}
    /\ InstallSettled

\* Before anything is started there is nothing to settle.
LEMMA InstInit == InstallInit => InstInv
  BY DEF InstallInit, InstInv, InstallSettled

\* Every step of the host or of the guest preserves it.
LEMMA InstNext == InstInv /\ InstallNext => InstInv'
  <1> SUFFICES ASSUME InstInv, InstallNext PROVE InstInv'
    OBVIOUS
  <1> USE DEF InstInv, InstallSettled
  <1>1. CASE Pin
    BY <1>1 DEF Pin
  <1>2. CASE CreateChild
    BY <1>2 DEF CreateChild
  <1>3. CASE Launch
    BY <1>3 DEF Launch
  <1>4. CASE Await
    BY <1>4 DEF Await, AwaitMonitor, AwaitShell, SendCommand, AwaitMarker, MarkerSeen
  <1>5. CASE QuitCleanly
    BY <1>5 DEF QuitCleanly
  <1>6. CASE Seal
    BY <1>6 DEF Seal
  <1>7. CASE Report
    BY <1>7 DEF Report
  <1>8. CASE Fail
    BY <1>8 DEF Fail, Active, Waiting
  <1>9. CASE RetainFailure \/ RetainRaises
    BY <1>9 DEF RetainFailure, RetainRaises, Retained
  <1>10. CASE GuestBoots \/ Breaks \/ Syncs \/ Announces \/ QemuDies
    BY <1>10 DEF GuestBoots, Breaks, Syncs, Announces, QemuDies, GuestRuns
  <1>11. CASE \E f \in Files : Copies(f) \/ WritesBack(f)
    BY <1>11 DEF Copies, WritesBack, GuestRuns
  <1> QED BY <1>1, <1>2, <1>3, <1>4, <1>5, <1>6, <1>7, <1>8, <1>9, <1>10, <1>11 DEF InstallNext

\* install_staged_helpers.py: a result that says success, or a sealed child,
\* stands for a complete installation, and no QEMU is left running unless
\* retain_failure itself raised.
THEOREM InstallIsSettled == Spec => []InstallSettled
  <1>1. Init => InstInv
    BY InstInit DEF Init
  <1>2. InstInv /\ [Next]_vars => InstInv'
    <2> SUFFICES ASSUME InstInv, [Next]_vars PROVE InstInv'
      OBVIOUS
    <2>1. CASE InstallNext
      BY <2>1, InstNext
    <2>2. CASE UNCHANGED instVars
      BY <2>2 DEF instVars, InstInv, InstallSettled
    <2> QED BY <2>1, <2>2 DEF Next, vars
  <1> QED BY <1>1, <1>2, PTL DEF Spec, InstInv

-----------------------------------------------------------------------------
(* The relay. *)

Kinds == {"T", "R", "P", "H", "S", "junk"}
Lines == [seq : Nat, kind : Kinds, down : BOOLEAN]
Replies == [seq : Nat, ok : BOOLEAN]
Packets == [kind : Kinds \ {"junk"}, down : BOOLEAN]

RelayType ==
    /\ wire \in Seq(Lines) /\ acks \in Seq(Replies) /\ steps \in Seq(Packets)
    /\ queue \in Seq([down : BOOLEAN, pos : Nat, edge : BOOLEAN])
    /\ captured \in Seq(BOOLEAN) /\ unread \in Nat
    /\ pending \in Nat /\ sequence \in Nat /\ last \in Nat
    /\ down \in BOOLEAN /\ stream \in Int /\ partial \in BOOLEAN /\ recap \in BOOLEAN
    /\ lastSent \in [Contacts -> {"none", "up", "down"}]
    /\ rpc \in {"none", "loop", "returned", "failed", "killed"}

\* The packet in flight is the last line on the wire, newer than anything the
\* guest has handled or answered ...
OnWire ==
    /\ wire # <<>> /\ wire[Len(wire)].seq = pending /\ wire[Len(wire)].kind # "junk"
    /\ last < pending
    /\ \A i \in 1..(Len(wire) - 1) : wire[i].seq < pending
    /\ \A i \in DOMAIN acks : acks[i].seq < pending

\* ... or the guest has handled it, and everything before it.
Answered == wire = <<>> /\ \E i \in DOMAIN acks : acks[i].seq = pending

Numbers ==
    /\ last <= sequence
    /\ \A i \in DOMAIN wire : wire[i].seq <= sequence
    /\ \A i \in DOMAIN acks : acks[i].seq <= sequence

InFlight ==
    rpc = "loop" =>
        /\ ~partial
        /\ pending # 0 => pending = sequence /\ (OnWire \/ Answered)
        /\ pending = 0 /\ (\E k \in Contacts : lastSent[k] # "none") => wire = <<>>

\* What the guest holds: the finger, a Recap stream.
Held == [k \in Contacts |-> IF k = "T" THEN down ELSE stream # NoStream]

\* Where a lift is: on the wire as the packet in flight, or done.
Lift ==
    \A k \in Contacts :
        /\ rpc = "loop" /\ lastSent[k] = "up" =>
            /\ pending = 0 => ~Held[k]
            /\ pending # 0 /\ wire # <<>> =>
                  \/ wire[Len(wire)].kind = k /\ ~wire[Len(wire)].down
                  \/ ~Held[k] /\ wire[Len(wire)].kind # k /\ Len(wire) = 1
            /\ pending # 0 => \A i \in DOMAIN acks : acks[i].seq = pending /\ acks[i].ok => ~Held[k]
        /\ rpc = "returned" /\ lastSent[k] = "up" => ~Held[k] /\ wire = <<>>

RelayInv == RelayType /\ Numbers /\ InFlight /\ Lift

\* Nothing is in flight initially.
LEMMA RelayInitInv == RelayInit => RelayInv
  <1> SUFFICES ASSUME RelayInit PROVE RelayInv
    OBVIOUS
  <1>1. RelayType
    <2>1. \A S : <<>> \in Seq(S)
      OBVIOUS
    <2>2. NoStream \in Int /\ lastSent \in [Contacts -> {"none", "up", "down"}]
      BY DEF NoStream, RelayInit
    <2> QED BY <2>1, <2>2 DEF RelayInit, RelayType
  <1>2. Numbers /\ InFlight /\ Lift
    BY DEF RelayInit, Numbers, InFlight, Lift
  <1> QED BY <1>1, <1>2 DEF RelayInv

\* Handling, answering and sending move lines between three queues.
LEMMA TailFacts ==
  ASSUME NEW S, NEW s \in Seq(S), s # <<>>
  PROVE  /\ Head(s) \in S /\ Head(s) = s[1] /\ Tail(s) \in Seq(S)
         /\ Len(Tail(s)) = Len(s) - 1 /\ Len(s) \in Nat \ {0}
         /\ \A i \in 1..(Len(s) - 1) : Tail(s)[i] = s[i + 1]
         /\ DOMAIN Tail(s) = 1..(Len(s) - 1) /\ DOMAIN s = 1..Len(s)
  OBVIOUS

LEMMA AppendFacts ==
  ASSUME NEW S, NEW s \in Seq(S), NEW e \in S
  PROVE  /\ Append(s, e) \in Seq(S) /\ Len(Append(s, e)) = Len(s) + 1 /\ Len(s) \in Nat
         /\ Append(s, e)[Len(s) + 1] = e /\ Append(s, e) # <<>>
         /\ \A i \in 1..Len(s) : Append(s, e)[i] = s[i]
         /\ DOMAIN Append(s, e) = 1..(Len(s) + 1) /\ DOMAIN s = 1..Len(s)
  OBVIOUS

\* The lines and the replies on their way are numbered.
LEMMA Numbered ==
  ASSUME RelayType
  PROVE  /\ \A i \in DOMAIN wire : wire[i] \in Lines /\ wire[i].seq \in Nat
         /\ \A i \in DOMAIN acks : acks[i] \in Replies /\ acks[i].seq \in Nat
         /\ DOMAIN wire = 1..Len(wire) /\ Len(wire) \in Nat
         /\ DOMAIN acks = 1..Len(acks) /\ Len(acks) \in Nat
         /\ wire # <<>> => Len(wire) > 0
  <1>1. wire \in Seq(Lines) /\ acks \in Seq(Replies)
    BY DEF RelayType
  <1>2. /\ \A i \in DOMAIN wire : wire[i] \in Lines
        /\ \A i \in DOMAIN acks : acks[i] \in Replies
        /\ DOMAIN wire = 1..Len(wire) /\ Len(wire) \in Nat
        /\ DOMAIN acks = 1..Len(acks) /\ Len(acks) \in Nat
        /\ wire # <<>> => Len(wire) > 0
    BY <1>1
  <1> QED BY <1>2 DEF Lines, Replies

\* main up to its loop.
LEMMA StartInv ==
  ASSUME RelayInv, NEW m \in Modes, NEW r \in BOOLEAN, NEW replay \in BOOLEAN,
         Start(m, r, replay)
  PROVE  RelayInv'
  <1> USE DEF RelayInv, Start
  <1>1. Junk \in Lines
    BY DEF Junk, Lines, Kinds
  <1>2. StepsOf(m, r) \in Seq(Packets)
    <2>1. \A k \in Kinds \ {"junk"}, d \in BOOLEAN : Step(k, d) \in Packets
      BY DEF Step, Packets
    <2>2. \A a, b, c \in Packets : /\ <<>> \in Seq(Packets) /\ <<a>> \in Seq(Packets)
                                   /\ <<a, b>> \in Seq(Packets) /\ <<a, b, c>> \in Seq(Packets)
      OBVIOUS
    <2>3. {"T", "R", "P", "H", "S"} \subseteq Kinds \ {"junk"}
      BY DEF Kinds
    <2>4. /\ Step("H", TRUE) \in Packets /\ Step("H", FALSE) \in Packets
          /\ Step("S", FALSE) \in Packets /\ Step("T", FALSE) \in Packets
          /\ Step("P", FALSE) \in Packets
          /\ Step("R", TRUE) \in Packets /\ Step("R", FALSE) \in Packets
      BY <2>1, <2>3
    <2>5. /\ <<Step("H", TRUE), Step("H", FALSE)>> \in Seq(Packets)
          /\ <<Step("S", FALSE)>> \in Seq(Packets) /\ <<Step("T", FALSE)>> \in Seq(Packets)
          /\ <<Step("P", FALSE)>> \in Seq(Packets)
          /\ <<Step("R", TRUE), Step("R", FALSE)>> \in Seq(Packets)
          /\ <<Step("R", TRUE), Step("R", TRUE), Step("R", FALSE)>> \in Seq(Packets)
          /\ <<>> \in Seq(Packets)
      BY <2>2, <2>4
    <2> QED BY <2>5 DEF StepsOf, Modes
  <1>3. Resync \in Seq(Lines) /\ \A i \in DOMAIN Resync : Resync[i].seq <= sequence
    <2>1. CASE partial
      BY <2>1, <1>1, AppendFacts DEF Resync, Numbers, RelayType, Junk
    <2>2. CASE ~partial
      BY <2>2 DEF Resync, Numbers, RelayType
    <2> QED BY <2>1, <2>2 DEF RelayType
  <1>4. RelayType'
    BY <1>2, <1>3 DEF RelayType, guestVars
  <1>5. ~partial'
    <2>1. CASE partial
      <3>1. Len(Append(wire, Junk)) # Len(wire)
        BY <1>1, AppendFacts DEF RelayType
      <3> QED BY <2>1, <3>1 DEF Resync
    <2> QED BY <2>1 DEF RelayType
  <1>6. Numbers'
    BY <1>3 DEF Numbers, guestVars
  <1>7. InFlight' /\ Lift'
    BY <1>5 DEF InFlight, Lift
  <1> QED BY <1>4, <1>6, <1>7

\* The relay's steps that send and receive nothing.
LEMMA QuietInv ==
  ASSUME RelayInv, (\E d \in BOOLEAN : Capture(d)) \/ ReadEvent \/ Timeout \/ Return \/ Kill
  PROVE  RelayInv'
  <1> USE DEF RelayInv
  <1>1. CASE \E d \in BOOLEAN : Capture(d)
    BY <1>1, AppendFacts DEF Capture, RelayType, Numbers, InFlight, OnWire, Answered, Lift, Held, hostVars, guestVars
  <1>2. CASE ReadEvent
    <2> DEFINE Records == [down : BOOLEAN, pos : Nat, edge : BOOLEAN]
    <2>1. Enqueue(queue, captured[unread + 1], unread + 1) \in Seq(Records)
      <3> DEFINE d == captured[unread + 1]
      <3>1. d \in BOOLEAN /\ unread + 1 \in Nat /\ queue \in Seq(Records)
        BY <1>2 DEF ReadEvent, RelayType
      <3>2. \A e \in BOOLEAN : [down |-> d, pos |-> unread + 1, edge |-> e] \in Records
        BY <3>1
      <3>3. \A q \in Seq(Records), e \in Records : q # <<>> => [q EXCEPT ![Len(q)] = e] \in Seq(Records)
        OBVIOUS
      <3>4. CASE Supersedes(queue, d)
        BY <3>1, <3>2, <3>3, <3>4 DEF Enqueue, Supersedes
      <3>5. CASE ~Supersedes(queue, d)
        <4>1. (~(queue # <<>> /\ Last(queue).down = d)) \in BOOLEAN
          OBVIOUS
        <4> QED BY <4>1, <3>1, <3>2, <3>5, AppendFacts DEF Enqueue
      <3> QED BY <3>4, <3>5
    <2>2. RelayType'
      BY <1>2, <2>1 DEF ReadEvent, RelayType, hostVars, guestVars
    <2>3. Numbers' /\ InFlight' /\ Lift'
      BY <1>2 DEF ReadEvent, Numbers, InFlight, OnWire, Answered, Lift, Held, hostVars, guestVars
    <2> QED BY <2>2, <2>3
  <1>3. CASE Timeout \/ Kill
    BY <1>3 DEF Timeout, Kill, RelayType, Numbers, InFlight, Lift, Held, hostVars, guestVars
  <1>4. CASE Return
    BY <1>4 DEF Return, RelayType, Numbers, InFlight, Lift, Held, hostVars, guestVars
  <1> QED BY <1>1, <1>2, <1>3, <1>4

\* A reply is taken: when it matches, the wire is empty.
LEMMA ReceiveInv == ASSUME RelayInv, Receive PROVE RelayInv'
  <1> USE DEF RelayInv, Receive
  <1>0. /\ Head(acks) = acks[1] /\ Len(acks) \in Nat \ {0}
        /\ acks' = Tail(acks) /\ acks' \in Seq(Replies) /\ DOMAIN acks = 1..Len(acks)
        /\ DOMAIN acks' = 1..(Len(acks) - 1)
        /\ \A i \in 1..(Len(acks) - 1) : acks'[i] = acks[i + 1]
    BY TailFacts DEF RelayType
  <1>1. RelayType'
    BY <1>0 DEF RelayType, hostVars, guestVars
  <1>2. Numbers'
    BY <1>0 DEF Numbers, guestVars
  <1>3. CASE AckMatches(Head(acks))
    <2>0. acks[1].seq = pending /\ pending # 0 /\ 1 \in DOMAIN acks
      BY <1>0, <1>3 DEF AckMatches
    <2>1. ~OnWire
      <3>1. pending \in Nat
        BY DEF RelayType
      <3>2. ASSUME OnWire PROVE acks[1].seq < pending
        BY <2>0, <3>2 DEF OnWire
      <3> HIDE DEF RelayInv, Receive
      <3> QED BY <2>0, <3>1, <3>2
    <2>2. Answered /\ acks[1].seq = pending /\ pending # 0
      BY <2>0, <2>1 DEF InFlight
    <2>3. InFlight'
      BY <2>2, <1>3 DEF InFlight, Answered, hostVars
    <2>4. Lift'
      BY <2>2, <1>3, <1>0 DEF Lift, Held, Answered, hostVars, guestVars
    <2> QED BY <1>1, <1>2, <2>3, <2>4
  <1>4. CASE ~AckMatches(Head(acks))
    <2>1. pending' = pending /\ rpc' = rpc /\ wire' = wire
      BY <1>4
    <2>2. pending # 0 => acks[1].seq # pending
      BY <1>0, <1>4 DEF AckMatches
    <2>3. OnWire => OnWire'
      BY <1>0, <2>1 DEF OnWire, guestVars
    <2>4. pending # 0 /\ Answered => Answered'
      <3> SUFFICES ASSUME pending # 0, Answered PROVE Answered'
        OBVIOUS
      <3>1. PICK i \in DOMAIN acks : acks[i].seq = pending
        BY DEF Answered
      <3>2. i # 1 /\ i - 1 \in 1..(Len(acks) - 1) /\ acks'[i - 1] = acks[i]
        BY <3>1, <2>2, <1>0
      <3> QED BY <3>1, <3>2, <2>1, <1>0 DEF Answered
    <2>5. InFlight'
      BY <2>1, <2>3, <2>4 DEF InFlight, hostVars
    <2>6. Lift'
      BY <2>1, <1>0 DEF Lift, Held, hostVars, guestVars
    <2> QED BY <1>1, <1>2, <2>5, <2>6
  <1> QED BY <1>3, <1>4

\* A packet is sent: it is newer than all there is.
LEMMA SendInv == ASSUME RelayInv, SendPacket PROVE RelayInv'
  <1> USE DEF RelayInv
  <1> DEFINE line == [seq |-> sequence + 1, kind |-> NextRecord.kind, down |-> NextRecord.down]
  <1>0. /\ rpc = "loop" /\ pending = 0 /\ (steps # <<>> \/ queue # <<>>)
        /\ acks' = acks /\ last' = last /\ down' = down /\ stream' = stream /\ recap' = recap
        /\ captured' = captured /\ unread' = unread
        /\ steps' = (IF steps # <<>> THEN Tail(steps) ELSE steps)
        /\ queue' = (IF steps # <<>> THEN queue ELSE Tail(queue))
        /\ lastSent' = [k \in Contacts |-> IF NextRecord.kind = k THEN Button(NextRecord.down)
                                                                 ELSE lastSent[k]]
    BY DEF SendPacket, guestVars
  <1>1. NextRecord \in Packets
    <2>1. CASE steps # <<>>
      BY <2>1, TailFacts DEF NextRecord, RelayType
    <2>2. CASE steps = <<>>
      <3>1. Head(queue) \in [down : BOOLEAN, pos : Nat, edge : BOOLEAN]
        BY <1>0, <2>2, TailFacts DEF RelayType
      <3>2. Head(queue).down \in BOOLEAN
        BY <3>1
      <3> QED BY <2>2, <3>2 DEF NextRecord, Step, Packets, Kinds
    <2> QED BY <2>1, <2>2
  <1>2. line \in Lines /\ line.kind # "junk" /\ line.seq = sequence + 1
    BY <1>1 DEF Packets, Lines, Kinds, RelayType
  <1>3. ~partial /\ rpc = "loop" /\ pending = 0
    BY <1>0 DEF InFlight
  <1>4. /\ steps' \in Seq(Packets)
        /\ queue' \in Seq([down : BOOLEAN, pos : Nat, edge : BOOLEAN])
    BY <1>0, TailFacts DEF RelayType
  <1>5. lastSent' \in [Contacts -> {"none", "up", "down"}] /\ Held' = Held
    BY <1>0 DEF RelayType, Button, Held
  <1>6. /\ pending' = sequence + 1 /\ sequence' = sequence + 1 /\ pending' # 0
        /\ sequence \in Nat /\ pending' \in Nat
    BY DEF RelayType, SendPacket
  <1>7. CASE wire' = Append(wire, line) /\ partial' = FALSE /\ rpc' = rpc
    <2>0. wire \in Seq(Lines)
      BY DEF RelayType
    <2>1. /\ wire' \in Seq(Lines) /\ Len(wire') = Len(wire) + 1 /\ Len(wire) \in Nat
          /\ wire'[Len(wire) + 1] = line /\ wire' # <<>>
          /\ \A i \in 1..Len(wire) : wire'[i] = wire[i]
          /\ DOMAIN wire' = 1..(Len(wire) + 1) /\ DOMAIN wire = 1..Len(wire)
      BY <1>7, <1>2, <2>0, AppendFacts
    <2>2. RelayType'
      BY <1>0, <1>3, <1>4, <1>5, <1>6, <1>7, <2>1 DEF RelayType
    <2>3. \A i \in 1..Len(wire) : wire'[i].seq < pending'
      <3> SUFFICES ASSUME NEW i \in 1..Len(wire) PROVE wire'[i].seq < pending'
        OBVIOUS
      <3>1. wire[i].seq <= sequence /\ wire[i].seq \in Nat /\ wire'[i] = wire[i]
        BY <2>1, Numbered DEF Numbers
      <3> QED BY <3>1, <1>6
    <2>4. \A i \in DOMAIN acks : acks[i].seq < pending'
      <3> SUFFICES ASSUME NEW i \in DOMAIN acks PROVE acks[i].seq < pending'
        OBVIOUS
      <3>1. acks[i].seq <= sequence /\ acks[i].seq \in Nat
        BY Numbered DEF Numbers
      <3> QED BY <3>1, <1>6
    <2>5. OnWire'
      <3>1. last' < pending'
        BY <1>0, <1>6 DEF Numbers, RelayType
      <3>2. Len(wire') - 1 = Len(wire) /\ wire'[Len(wire')] = line
        BY <2>1
      <3> QED BY <1>0, <2>1, <2>3, <2>4, <1>2, <1>6, <3>1, <3>2 DEF OnWire
    <2>6. Numbers'
      <3>1. last' <= sequence'
        BY <1>0, <1>6 DEF Numbers, RelayType
      <3>2. \A i \in DOMAIN wire' : wire'[i].seq <= sequence'
        <4> SUFFICES ASSUME NEW i \in DOMAIN wire' PROVE wire'[i].seq <= sequence'
          OBVIOUS
        <4>1. CASE i = Len(wire) + 1
          BY <4>1, <2>1, <1>2, <1>6
        <4>2. CASE i \in 1..Len(wire)
          <5>1. wire'[i] = wire[i] /\ wire[i].seq \in Nat /\ wire'[i].seq < pending'
            BY <4>2, <2>1, <2>3, Numbered
          <5> QED BY <5>1, <1>6
        <4> QED BY <4>1, <4>2, <2>1
      <3>3. \A i \in DOMAIN acks' : acks'[i].seq <= sequence'
        <4> SUFFICES ASSUME NEW i \in DOMAIN acks PROVE acks[i].seq <= sequence'
          BY <1>0
        <4>1. acks[i].seq \in Nat /\ acks[i].seq < pending'
          BY <2>4, Numbered
        <4> QED BY <4>1, <1>6
      <3> QED BY <3>1, <3>2, <3>3 DEF Numbers
    <2>7. InFlight'
      BY <2>5, <1>3, <1>6, <1>7 DEF InFlight
    <2>8. Lift'
      <3> SUFFICES ASSUME NEW k \in Contacts, lastSent'[k] = "up"
                   PROVE  /\ \/ wire'[Len(wire')].kind = k /\ ~wire'[Len(wire')].down
                             \/ ~Held'[k] /\ wire'[Len(wire')].kind # k /\ Len(wire') = 1
                          /\ \A i \in DOMAIN acks' : acks'[i].seq # pending'
        BY <1>3, <1>6, <1>7 DEF Lift
      <3>1. \A i \in DOMAIN acks' : acks'[i].seq # pending'
        <4> SUFFICES ASSUME NEW i \in DOMAIN acks PROVE acks[i].seq # pending'
          BY <1>0
        <4>1. acks[i].seq \in Nat /\ acks[i].seq < pending'
          BY <2>4, Numbered
        <4> QED BY <4>1, <1>6
      <3>2. wire'[Len(wire')].kind = NextRecord.kind /\ wire'[Len(wire')].down = NextRecord.down
        BY <2>1
      <3>3. CASE NextRecord.kind = k
        <4>1. NextRecord.down = FALSE
          BY <1>0, <3>3, <1>1 DEF Button, Packets
        <4> QED BY <3>1, <3>2, <3>3, <4>1
      <3>4. CASE NextRecord.kind # k
        <4>1. lastSent[k] = "up"
          BY <1>0, <3>4
        <4>2. ~Held[k] /\ wire = <<>>
          BY <4>1, <1>3 DEF Lift, InFlight
        <4> QED BY <3>1, <3>2, <3>4, <4>2, <2>1, <1>5
      <3> QED BY <3>3, <3>4
    <2> QED BY <2>2, <2>6, <2>7, <2>8
  <1>8. CASE wire' = wire /\ partial' = TRUE /\ rpc' = "killed"
    <2>1. RelayType'
      BY <1>0, <1>4, <1>5, <1>6, <1>8 DEF RelayType
    <2>2. Numbers'
      <3>1. \A n \in Nat : n <= sequence => n <= sequence'
        BY <1>6
      <3>2. last \in Nat
        BY DEF RelayType
      <3> QED BY <1>0, <1>8, <3>1, <3>2, Numbered DEF Numbers
    <2>3. InFlight' /\ Lift'
      BY <1>8 DEF InFlight, Lift
    <2> QED BY <2>1, <2>2, <2>3
  <1> QED BY <1>3, <1>7, <1>8 DEF SendPacket

\* The guest handles a line: the packet in flight comes last and is answered.
LEMMA GuestInv == ASSUME RelayInv, NEW posted \in BOOLEAN, GuestLine(posted) PROVE RelayInv'
  <1> USE DEF RelayInv, GuestLine
  <1> DEFINE p == Head(wire)
             ok == Posted(p, posted)
             reply == [seq |-> p.seq, ok |-> ok]
  <1>1. /\ p = wire[1] /\ p \in Lines /\ wire' = Tail(wire) /\ wire' \in Seq(Lines)
        /\ Len(wire) \in Nat \ {0} /\ Len(wire') = Len(wire) - 1
        /\ DOMAIN wire = 1..Len(wire) /\ DOMAIN wire' = 1..(Len(wire) - 1)
        /\ \A i \in 1..(Len(wire) - 1) : wire'[i] = wire[i + 1]
    BY TailFacts DEF RelayType
  <1>2. reply \in Replies /\ p.seq \in Nat /\ p.seq <= sequence
    <2>1. p.seq \in Nat
      BY <1>1 DEF Lines
    <2>2. 1 \in DOMAIN wire
      BY <1>1
    <2>3. p.seq <= sequence
      BY <1>1, <2>2 DEF Numbers
    <2>4. reply \in Replies
      BY <2>1 DEF Replies, Posted
    <2> QED BY <2>1, <2>3, <2>4
  <1>3. RelayType' /\ Numbers'
    <2>1. CASE Accepts(p)
      <3>1. /\ acks' \in Seq(Replies)
            /\ \A i \in DOMAIN acks' : acks'[i].seq <= sequence
        <4>1. acks \in Seq(Replies) /\ \A i \in DOMAIN acks : acks[i].seq <= sequence
          BY DEF RelayType, Numbers
        <4>2. acks' = acks \/ acks' = Append(acks, reply)
          BY <2>1
        <4>3. reply.seq = p.seq
          OBVIOUS
        <4>4. CASE acks' = acks
          BY <4>1, <4>4
        <4>5. CASE acks' = Append(acks, reply)
          <5>1. /\ acks' \in Seq(Replies) /\ DOMAIN acks' = 1..(Len(acks) + 1) /\ Len(acks) \in Nat
                /\ DOMAIN acks = 1..Len(acks) /\ acks'[Len(acks) + 1] = reply
                /\ \A i \in 1..Len(acks) : acks'[i] = acks[i]
            BY <4>1, <4>5, <1>2, AppendFacts
          <5>2. ASSUME NEW i \in DOMAIN acks' PROVE acks'[i].seq <= sequence
            <6>1. i \in 1..Len(acks) \/ i = Len(acks) + 1
              BY <5>1
            <6> QED BY <6>1, <5>1, <4>1, <4>3, <1>2
          <5> QED BY <5>1, <5>2
        <4> QED BY <4>2, <4>4, <4>5
      <3>2. last' = p.seq /\ down' \in BOOLEAN /\ stream' \in Int
        <4>1. \A d, o \in BOOLEAN : StreamAfter(d, o) \subseteq Int
          BY RelayAssumption DEF StreamAfter, RelayType, NoStream
        <4>2. p.down \in BOOLEAN /\ ok \in BOOLEAN
          BY <1>1 DEF Lines, Posted
        <4> QED BY <2>1, <4>1, <4>2 DEF RelayType
      <3> QED BY <3>1, <3>2, <1>1, <1>2 DEF RelayType, Numbers, hostVars
    <2>2. CASE ~Accepts(p)
      BY <2>2, <1>1 DEF RelayType, Numbers, hostVars, guestVars
    <2> QED BY <2>1, <2>2
  <1>4. CASE rpc # "loop"
    <2>1. InFlight'
      BY <1>4 DEF InFlight
    <2>2. Lift'
      BY <1>4, <1>1 DEF Lift, hostVars
    <2> QED BY <1>3, <2>1, <2>2
  <1>5. CASE rpc = "loop" /\ pending = 0
    <2>1. \A k \in Contacts : lastSent[k] = "none"
      BY <1>5, <1>1 DEF InFlight
    <2>2. InFlight' /\ Lift'
      BY <1>5, <2>1 DEF InFlight, Lift, hostVars
    <2> QED BY <1>3, <2>2
  <1>6. CASE rpc = "loop" /\ pending # 0
    <2>1. OnWire /\ pending = sequence /\ ~partial
      BY <1>6, <1>1 DEF InFlight, Answered
    <2>2. CASE Len(wire) = 1
      <3>1. p.seq = pending /\ Accepts(p) /\ wire' = <<>>
        BY <2>1, <2>2, <1>1, <1>2 DEF OnWire, Accepts, RelayType
      <3>2. acks' = Append(acks, reply) /\ down' = (IF p.kind = "T" /\ ok THEN p.down ELSE down)
            /\ stream' \in IF p.kind = "R" THEN StreamAfter(p.down, ok) ELSE {stream}
        BY <3>1, <1>6
      <3>3. /\ DOMAIN acks' = 1..(Len(acks) + 1) /\ Len(acks) \in Nat /\ DOMAIN acks = 1..Len(acks)
            /\ acks'[Len(acks) + 1] = reply /\ \A i \in 1..Len(acks) : acks'[i] = acks[i]
        BY <3>2, <1>2, AppendFacts DEF RelayType
      <3>4. Answered'
        BY <3>1, <3>3 DEF Answered
      <3>5. InFlight'
        BY <3>4, <2>1, <1>6 DEF InFlight, hostVars
      <3>6. ASSUME NEW k \in Contacts, lastSent[k] = "up", NEW i \in DOMAIN acks', acks'[i].seq = pending, acks'[i].ok
            PROVE  ~Held'[k]
        <4>1. i = Len(acks) + 1
          <5> SUFFICES ASSUME i \in 1..Len(acks) PROVE FALSE
            BY <3>3
          <5> QED BY <3>6, <3>3, <2>1 DEF OnWire, RelayType
        <4>2. acks'[i] = reply /\ reply.ok = ok
          BY <4>1, <3>3
        <4>21. ok
          BY <4>2, <3>6
        <4>3. \/ p.kind = k /\ ~p.down
              \/ ~Held[k] /\ p.kind # k
          BY <3>6, <1>6, <2>2, <1>1 DEF Lift
        <4>4. p.kind = "R" /\ ~p.down => stream' = NoStream
          BY <4>21, <3>2 DEF StreamAfter
        <4> QED BY <4>21, <4>3, <4>4, <3>2 DEF Held, Contacts
      <3>7. Lift'
        BY <3>1, <3>6, <1>6 DEF Lift, hostVars
      <3> QED BY <1>3, <3>5, <3>7
    <2>3. CASE Len(wire) > 1
      <3>1. p.seq < pending /\ wire' # <<>> /\ wire'[Len(wire')] = wire[Len(wire)]
        <4>1. 1 \in 1..(Len(wire) - 1) /\ Len(wire') # 0 /\ Len(wire) - 1 \in 1..(Len(wire) - 1)
          BY <2>3, <1>1
        <4>2. wire'[Len(wire) - 1] = wire[(Len(wire) - 1) + 1] /\ (Len(wire) - 1) + 1 = Len(wire)
          BY <4>1, <1>1
        <4>3. p.seq < pending
          BY <2>1, <4>1, <1>1 DEF OnWire
        <4>4. wire' # <<>>
          <5>1. Len(<<>>) = 0
            OBVIOUS
          <5> QED BY <5>1, <4>1
        <4>5. Len(wire') = Len(wire) - 1
          BY <1>1
        <4> QED BY <4>2, <4>3, <4>4, <4>5
      <3>2. \A i \in DOMAIN acks' : acks'[i].seq < pending
        <4>1. acks \in Seq(Replies) /\ \A i \in DOMAIN acks : acks[i].seq < pending
          BY <2>1 DEF RelayType, OnWire
        <4>2. acks' = acks \/ acks' = Append(acks, reply)
          OBVIOUS
        <4>3. reply.seq < pending
          BY <3>1
        <4>4. CASE acks' = Append(acks, reply)
          <5>1. /\ DOMAIN acks' = 1..(Len(acks) + 1) /\ Len(acks) \in Nat
                /\ DOMAIN acks = 1..Len(acks) /\ acks'[Len(acks) + 1] = reply
                /\ \A i \in 1..Len(acks) : acks'[i] = acks[i]
            BY <4>1, <4>4, <1>2, AppendFacts
          <5> HIDE DEF RelayInv, GuestLine, reply
          <5> QED BY <4>1, <4>3, <5>1
        <4> QED BY <4>1, <4>2, <4>4
      <3>3. last' < pending
        <4>1. last < pending
          BY <2>1 DEF OnWire
        <4>2. last' = last \/ last' = p.seq
          BY DEF guestVars
        <4> QED BY <3>1, <4>1, <4>2
      <3>4. \A i \in 1..(Len(wire') - 1) : wire'[i].seq < pending
        BY <2>1, <1>1 DEF OnWire
      <3>5. OnWire'
        BY <3>1, <3>2, <3>3, <3>4, <2>1 DEF OnWire
      <3>6. InFlight'
        BY <3>5, <2>1, <1>6 DEF InFlight, hostVars
      <3>7. \A i \in DOMAIN acks' : acks'[i].seq # pending
        <4>1. pending \in Nat
          BY DEF RelayType
        <4> HIDE DEF RelayInv, GuestLine
        <4> QED BY <3>2, <4>1
      <3>8. \A k \in Contacts : lastSent[k] = "up" => wire[Len(wire)].kind = k /\ ~wire[Len(wire)].down
        BY <1>6, <2>1, <2>3 DEF Lift, OnWire
      <3>9. Lift'
        BY <3>1, <3>7, <3>8, <1>6 DEF Lift, hostVars
      <3> QED BY <1>3, <3>6, <3>9
    <2> QED BY <2>2, <2>3, <1>1
  <1> QED BY <1>4, <1>5, <1>6

\* The daemon starts again: the finger is up and every number is new to it.
LEMMA RestartInv == ASSUME RelayInv, GuestRestart PROVE RelayInv'
  <1> USE DEF RelayInv, GuestRestart
  <1>1. RelayType'
    <2>1. NoStream \in Int /\ 0 \in Nat
      BY DEF NoStream
    <2> QED BY <2>1 DEF RelayType, hostVars
  <1>2. Numbers'
    BY DEF Numbers, RelayType
  <1>3. OnWire => OnWire'
    BY DEF OnWire, RelayType
  <1>4. InFlight'
    BY <1>3 DEF InFlight, Answered, hostVars
  <1>5. Lift'
    BY DEF Lift, Held, hostVars, Contacts
  <1> QED BY <1>1, <1>2, <1>4, <1>5

\* Every reachable state has the relay's invariant.
THEOREM RelayInvariant == Spec => []RelayInv
  <1>1. Init => RelayInv
    BY RelayInitInv DEF Init
  <1>2. RelayInv /\ [Next]_vars => RelayInv'
    <2> SUFFICES ASSUME RelayInv, [Next]_vars PROVE RelayInv'
      OBVIOUS
    <2>1. CASE RelayNext
      BY <2>1, StartInv, QuietInv, ReceiveInv, SendInv, GuestInv, RestartInv DEF RelayNext
    <2>2. CASE UNCHANGED relayVars
      BY <2>2 DEF relayVars, hostVars, guestVars, RelayInv, RelayType, Numbers, InFlight, OnWire,
                  Answered, Lift, Held
    <2> QED BY <2>1, <2>2 DEF Next, vars
  <1> QED BY <1>1, <1>2, PTL DEF Spec

\* relay.py: an acknowledged lift has raised the finger in the guest, or left no
\* Recap stream in it.
THEOREM RelayFingerLifted == Spec => []FingerLifted
  <1>1. RelayInv => FingerLifted
    BY DEF RelayInv, Lift, Held, Contacts, FingerLifted
  <1> QED BY <1>1, RelayInvariant, PTL

\* relay.py: a packet in flight reaches the guest or its answer the relay.
THEOREM RelayPacketReaches == Spec => []PacketReaches
  <1>1. RelayInv => PacketReaches
    <2> SUFFICES ASSUME RelayInv, rpc = "loop", pending # 0
                 PROVE  \/ \E q \in ToSet(wire) : q.seq = pending
                        \/ \E a \in ToSet(acks) : a.seq = pending
      BY DEF PacketReaches
    <2>1. CASE OnWire
      <3>1. Len(wire) \in DOMAIN wire
        BY <2>1, TailFacts DEF OnWire, RelayInv, RelayType
      <3> QED BY <2>1, <3>1 DEF OnWire, ToSet
    <2>2. CASE Answered
      BY <2>2 DEF Answered, ToSet
    <2> QED BY <2>1, <2>2 DEF RelayInv, InFlight
  <1> QED BY <1>1, RelayInvariant, PTL

-----------------------------------------------------------------------------
(* What the relay forwards of the events file. *)

Recs == [down : BOOLEAN, pos : Nat, edge : BOOLEAN]

\* Forwarded records stand in the order of the file and end with the last state
\* read; a queued record that enqueue may overwrite is not an edge.
All == sent \o queue

EdgeType ==
    /\ base \in Nat /\ unread \in Nat /\ sent \in Seq(Recs) /\ queue \in Seq(Recs)
    /\ captured \in Seq(BOOLEAN) /\ base <= unread /\ unread <= Len(captured)

Ordered == \A i, j \in 1..Len(All) : i < j => All[i].pos < All[j].pos

\* Every forwarded record is a state of the file that was read.
OfFile ==
    \A i \in 1..Len(All) :
        All[i].pos \in (base + 1)..unread /\ All[i].down = captured[All[i].pos]

Latest == unread > base => Len(All) > 0 /\ All[Len(All)].pos = unread

EdgesIn == \A i \in (base + 1)..unread : IsEdge(i) => \E k \in 1..Len(All) : All[k].pos = i

Replaceable == \A k \in 1..Len(queue) : ~queue[k].edge => ~IsEdge(queue[k].pos)

EdgeInv == EdgeType /\ Ordered /\ OfFile /\ Latest /\ EdgesIn /\ Replaceable

\* The records of a concatenation.
LEMMA ConcatFacts ==
    ASSUME NEW S, NEW s \in Seq(S), NEW q \in Seq(S)
    PROVE  /\ s \o q \in Seq(S) /\ Len(s \o q) = Len(s) + Len(q)
           /\ Len(s) \in Nat /\ Len(q) \in Nat
           /\ \A i \in 1..Len(s) : (s \o q)[i] = s[i]
           /\ \A i \in 1..Len(q) : (s \o q)[Len(s) + i] = q[i]
           /\ \A i \in 1..(Len(s) + Len(q)) :
                 (s \o q)[i] = IF i <= Len(s) THEN s[i] ELSE q[i - Len(s)]
  OBVIOUS

LEMMA RecsFacts ==
    ASSUME EdgeType
    PROVE  /\ All \in Seq(Recs) /\ Len(All) = Len(sent) + Len(queue) /\ Len(All) \in Nat
           /\ Len(sent) \in Nat /\ Len(queue) \in Nat
           /\ \A i \in 1..Len(All) : All[i] \in Recs /\ All[i].pos \in Nat
           /\ \A i \in 1..Len(queue) : All[Len(sent) + i] = queue[i]
           /\ queue # <<>> => Len(queue) > 0 /\ Last(queue) = All[Len(All)]
  <1>1. /\ All \in Seq(Recs) /\ Len(All) = Len(sent) + Len(queue)
        /\ Len(sent) \in Nat /\ Len(queue) \in Nat
        /\ \A i \in 1..Len(queue) : All[Len(sent) + i] = queue[i]
    BY ConcatFacts DEF EdgeType, All
  <1>2. \A i \in 1..Len(All) : All[i] \in Recs
    BY <1>1
  <1>3. \A x \in Recs : x.pos \in Nat
    BY DEF Recs
  <1>4. queue # <<>> => Len(queue) > 0
    BY DEF EdgeType
  <1> QED BY <1>1, <1>2, <1>3, <1>4 DEF Last

\* Steps that leave alone what was read and forwarded; the file may grow.
LEMMA EdgeQuiet ==
    ASSUME EdgeInv, UNCHANGED <<base, unread, sent, queue>>, captured' \in Seq(BOOLEAN),
           Len(captured') >= Len(captured),
           \A i \in 1..Len(captured) : captured'[i] = captured[i]
    PROVE  EdgeInv'
  <1>1. EdgeType' /\ All' = All
    BY DEF EdgeInv, EdgeType, All
  <1>2. \A i \in (base + 1)..unread : captured'[i] = captured[i] /\ IsEdge(i)' = IsEdge(i)
    <2> SUFFICES ASSUME NEW i \in (base + 1)..unread
                 PROVE  captured'[i] = captured[i] /\ IsEdge(i)' = IsEdge(i)
      OBVIOUS
    <2>1. i \in 1..Len(captured) /\ (i # base + 1 => i - 1 \in 1..Len(captured))
      BY DEF EdgeInv, EdgeType
    <2> QED BY <2>1 DEF IsEdge
  <1>3. Ordered' /\ OfFile' /\ Latest' /\ EdgesIn'
    BY <1>1, <1>2 DEF EdgeInv, Ordered, OfFile, Latest, EdgesIn
  <1>4. Replaceable'
    <2> SUFFICES ASSUME NEW k \in 1..Len(queue), ~queue[k].edge PROVE ~IsEdge(queue[k].pos)'
      BY DEF Replaceable
    <2>1. queue[k].pos \in (base + 1)..unread
      BY RecsFacts DEF EdgeInv, OfFile
    <2> QED BY <1>2, <2>1 DEF EdgeInv, Replaceable
  <1> QED BY <1>1, <1>3, <1>4 DEF EdgeInv

\* The state at unread + 1 is forwarded: behind the others, or in place of the
\* last one, which then is no edge.
LEMMA EdgeAppended ==
    ASSUME EdgeInv, UNCHANGED <<base, sent, captured>>, unread' = unread + 1,
           unread < Len(captured), EdgeType',
           NEW r \in Recs, r.pos = unread + 1, r.down = captured[unread + 1],
           NEW n \in Nat, n = Len(All) \/ (n = Len(All) - 1 /\ ~IsEdge(unread)),
           Len(All') = n + 1, All'[n + 1] = r, \A i \in 1..n : All'[i] = All[i]
    PROVE  Ordered' /\ OfFile' /\ Latest' /\ EdgesIn'
  <1>0. /\ base \in Nat /\ unread \in Nat /\ base <= unread /\ Len(All) \in Nat
        /\ \A i \in 1..Len(All) : All[i].pos \in (base + 1)..unread
    BY RecsFacts DEF EdgeInv, EdgeType, OfFile
  <1>1. Ordered'
    <2> SUFFICES ASSUME NEW i \in 1..(n + 1), NEW j \in 1..(n + 1), i < j
                 PROVE  All'[i].pos < All'[j].pos
      BY DEF Ordered
    <2>1. i \in 1..n /\ i \in 1..Len(All)
      BY <1>0
    <2>2. CASE j = n + 1
      <3>1. All'[i].pos <= unread /\ All'[i].pos \in Int
        BY <1>0, <2>1
      <3>2. All'[j].pos = unread + 1
        BY <2>2
      <3> QED BY <1>0, <3>1, <3>2
    <2>3. CASE j \in 1..n
      <3>1. j \in 1..Len(All) /\ All'[i] = All[i] /\ All'[j] = All[j]
        BY <1>0, <2>1, <2>3
      <3> QED BY <2>1, <3>1 DEF EdgeInv, Ordered
    <2> QED BY <2>2, <2>3
  <1>2. OfFile'
    <2> SUFFICES ASSUME NEW i \in 1..(n + 1)
                 PROVE  /\ All'[i].pos \in (base + 1)..(unread + 1)
                        /\ All'[i].down = captured[All'[i].pos]
      BY DEF OfFile
    <2>1. CASE i = n + 1
      BY <1>0, <2>1
    <2>2. CASE i \in 1..n
      <3>1. i \in 1..Len(All) /\ All'[i] = All[i]
        BY <1>0, <2>2
      <3>2. All[i].pos \in (base + 1)..unread /\ All[i].down = captured[All[i].pos]
        BY <3>1 DEF EdgeInv, OfFile
      <3> QED BY <1>0, <3>1, <3>2
    <2> QED BY <2>1, <2>2
  <1>3. Latest'
    BY DEF Latest
  <1>4. EdgesIn'
    <2> SUFFICES ASSUME NEW i \in (base + 1)..(unread + 1), IsEdge(i)
                 PROVE  \E k \in 1..(n + 1) : All'[k].pos = i
      BY DEF EdgesIn, IsEdge
    <2>1. CASE i = unread + 1
      BY <2>1
    <2>2. CASE i \in (base + 1)..unread
      <3>1. PICK k \in 1..Len(All) : All[k].pos = i
        BY <2>2 DEF EdgeInv, EdgesIn
      <3>2. CASE k \in 1..n
        BY <3>1, <3>2
      <3>3. CASE k \notin 1..n
        <4>1. k = Len(All) /\ ~IsEdge(unread)
          BY <3>3, <1>0
        <4>2. All[k].pos = unread
          BY <4>1, <2>2, <1>0 DEF EdgeInv, Latest
        <4> QED BY <4>1, <4>2, <3>1
      <3> QED BY <3>2, <3>3
    <2> QED BY <2>1, <2>2, <1>0
  <1> QED BY <1>1, <1>2, <1>3, <1>4

LEMMA EdgeRead == ASSUME EdgeInv, ReadEvent PROVE EdgeInv'
  <1> DEFINE d == captured[unread + 1]
             pos == unread + 1
  <1>0. EdgeType /\ UNCHANGED <<base, sent, captured>> /\ unread < Len(captured)
    BY DEF ReadEvent, EdgeInv, hostVars
  <1>1. CASE UNCHANGED <<unread, queue>>
    BY <1>0, <1>1, EdgeQuiet DEF EdgeType
  <1>2. CASE unread' = pos /\ queue' = Enqueue(queue, d, pos)
    <2>1. d \in BOOLEAN /\ pos \in Nat /\ pos \in 1..Len(captured)
      BY <1>0 DEF EdgeType
    <2>2. \A e \in BOOLEAN : [down |-> d, pos |-> pos, edge |-> e] \in Recs
      BY <2>1 DEF Recs
    <2>3. ASSUME queue # <<>>, Last(queue).down = d
          PROVE  ~IsEdge(pos)
      <3>1. Last(queue) = All[Len(All)] /\ Len(All) \in 1..Len(All)
        BY <2>3, <1>0, RecsFacts
      <3>2. /\ All[Len(All)].pos \in (base + 1)..unread
            /\ All[Len(All)].down = captured[All[Len(All)].pos]
        BY <3>1 DEF EdgeInv, OfFile
      <3>3. unread > base /\ All[Len(All)].pos = unread
        BY <3>2, <1>0 DEF EdgeInv, Latest, EdgeType
      <3> QED BY <2>3, <3>1, <3>2, <3>3, <1>0 DEF IsEdge, EdgeType
    <2>4. CASE Supersedes(queue, d)
      <3> DEFINE r == [down |-> d, pos |-> pos, edge |-> FALSE]
      <3>0. queue # <<>> /\ Last(queue).down = d /\ ~Last(queue).edge
        BY <2>4 DEF Supersedes
      <3>1. /\ queue \in Seq(Recs) /\ r \in Recs /\ Len(queue) \in Nat \ {0}
            /\ queue' = [queue EXCEPT ![Len(queue)] = r]
        <4>1. queue \in Seq(Recs) /\ Len(queue) \in Nat \ {0}
          BY <3>0, <1>0, RecsFacts DEF EdgeType
        <4>2. queue' = [queue EXCEPT ![Len(queue)] = r]
          BY <1>2, <2>4 DEF Enqueue
        <4> QED BY <4>1, <4>2, <2>2
      <3>2. /\ queue' \in Seq(Recs) /\ Len(queue') = Len(queue) /\ queue'[Len(queue)] = r
            /\ \A k \in 1..(Len(queue) - 1) : queue'[k] = queue[k]
        BY <3>1
      <3>3. EdgeType'
        BY <1>0, <1>2, <3>2 DEF EdgeType
      <3> DEFINE n == Len(All) - 1
      <3>4. /\ Len(All) = Len(sent) + Len(queue) /\ Len(All) \in Nat /\ n \in Nat
            /\ Len(All') = n + 1 /\ All' = sent \o queue' /\ Len(sent) \in Nat
        <4>1. All' = sent \o queue' /\ sent \in Seq(Recs)
          BY <1>0 DEF All, EdgeType
        <4>2. Len(All') = Len(sent) + Len(queue')
          BY <4>1, <3>2, ConcatFacts
        <4>3. Len(All) = Len(sent) + Len(queue) /\ Len(sent) \in Nat
          BY <1>0, RecsFacts
        <4>4. Len(queue) \in Nat \ {0} /\ Len(queue') = Len(queue)
          BY <3>1, <3>2
        <4> HIDE DEF r
        <4> QED BY <4>1, <4>2, <4>3, <4>4
      <3>5. All'[n + 1] = r /\ \A i \in 1..n : All'[i] = All[i]
        <4>1. /\ \A i \in 1..Len(All) :
                   All[i] = IF i <= Len(sent) THEN sent[i] ELSE queue[i - Len(sent)]
              /\ \A i \in 1..Len(All) :
                   All'[i] = IF i <= Len(sent) THEN sent[i] ELSE queue'[i - Len(sent)]
          <5>1. sent \in Seq(Recs) /\ queue \in Seq(Recs) /\ queue' \in Seq(Recs)
            BY <1>0, <3>2 DEF EdgeType
          <5>2. All = sent \o queue
            BY DEF All
          <5>3. \A i \in 1..(Len(sent) + Len(queue)) :
                   All[i] = IF i <= Len(sent) THEN sent[i] ELSE queue[i - Len(sent)]
            BY <5>1, <5>2, ConcatFacts
          <5>4. \A i \in 1..(Len(sent) + Len(queue')) :
                   All'[i] = IF i <= Len(sent) THEN sent[i] ELSE queue'[i - Len(sent)]
            BY <5>1, <3>4, ConcatFacts
          <5> QED BY <5>3, <5>4, <3>2, <3>4
        <4>2. Len(sent) \in Nat /\ n + 1 = Len(sent) + Len(queue) /\ n + 1 = Len(All)
              /\ Len(queue) \in Nat \ {0} /\ n \in Nat
          BY <3>1, <3>4
        <4> HIDE DEF n, r
        <4>3. All'[n + 1] = r
          <5>1. n + 1 \in 1..Len(All) /\ ~(n + 1 <= Len(sent)) /\ (n + 1) - Len(sent) = Len(queue)
            BY <4>2
          <5> QED BY <5>1, <4>1, <3>2
        <4>4. ASSUME NEW i \in 1..n, i > Len(sent) PROVE i - Len(sent) \in 1..(Len(queue) - 1)
          BY <4>2, <4>4
        <4>5. ASSUME NEW i \in 1..n PROVE All'[i] = All[i]
          <5>1. i \in 1..Len(All)
            BY <4>2
          <5>2. CASE i <= Len(sent)
            BY <4>1, <5>1, <5>2
          <5>3. CASE ~(i <= Len(sent))
            <6>1. i - Len(sent) \in 1..(Len(queue) - 1)
              BY <4>4, <5>3, <4>2
            <6> QED BY <6>1, <4>1, <5>1, <5>3, <3>2
          <5> QED BY <5>2, <5>3
        <4> QED BY <4>3, <4>5
      <3>6. ~IsEdge(unread)
        <4>1. Last(queue) = queue[Len(queue)] /\ Last(queue) = All[Len(All)]
              /\ Len(queue) \in 1..Len(queue) /\ Len(All) \in 1..Len(All)
          BY <3>0, <3>1, <3>4, <1>0, RecsFacts DEF Last
        <4>2. ~IsEdge(Last(queue).pos)
          BY <4>1, <3>0 DEF EdgeInv, Replaceable
        <4>3. Last(queue).pos \in (base + 1)..unread
          BY <4>1 DEF EdgeInv, OfFile
        <4>4. Last(queue).pos = unread
          BY <4>1, <4>3, <1>0 DEF EdgeInv, Latest, EdgeType
        <4> QED BY <4>2, <4>4
      <3>7. Ordered' /\ OfFile' /\ Latest' /\ EdgesIn'
        <4>1. r \in Recs /\ r.pos = unread + 1 /\ r.down = captured[unread + 1]
          BY <3>1
        <4> HIDE DEF r, n
        <4> QED BY <4>1, <1>0, <1>2, <3>3, <3>4, <3>5, <3>6, EdgeAppended DEF n
      <3>8. Replaceable'
        <4> SUFFICES ASSUME NEW k \in 1..Len(queue), ~queue'[k].edge
                     PROVE  ~IsEdge(queue'[k].pos)
          BY <1>0, <3>2 DEF Replaceable, IsEdge
        <4>1. CASE k = Len(queue)
          BY <4>1, <3>0, <3>2, <2>3
        <4>2. CASE k \in 1..(Len(queue) - 1)
          BY <4>2, <3>2 DEF EdgeInv, Replaceable
        <4> QED BY <4>1, <4>2, <3>1
      <3> QED BY <3>3, <3>7, <3>8 DEF EdgeInv
    <2>5. CASE ~Supersedes(queue, d)
      <3> DEFINE again == queue # <<>> /\ Last(queue).down = d
                 r == [down |-> d, pos |-> pos, edge |-> ~again]
      <3>1. queue \in Seq(Recs) /\ r \in Recs /\ queue' = Append(queue, r)
        <4>1. (~again) \in BOOLEAN
          OBVIOUS
        <4> QED BY <4>1, <1>0, <1>2, <2>2, <2>5 DEF Enqueue, EdgeType
      <3>2. /\ queue' \in Seq(Recs) /\ Len(queue') = Len(queue) + 1 /\ Len(queue) \in Nat
            /\ queue'[Len(queue) + 1] = r /\ \A k \in 1..Len(queue) : queue'[k] = queue[k]
        BY <3>1, AppendFacts
      <3>3. EdgeType'
        BY <1>0, <1>2, <3>2 DEF EdgeType
      <3> DEFINE n == Len(All)
      <3>4. /\ n = Len(sent) + Len(queue) /\ n \in Nat /\ Len(sent) \in Nat
            /\ Len(All') = n + 1 /\ All' = sent \o queue'
        <4>1. All' = sent \o queue' /\ sent \in Seq(Recs)
          BY <1>0 DEF All, EdgeType
        <4>2. Len(All') = Len(sent) + Len(queue')
          BY <4>1, <3>2, ConcatFacts
        <4>3. Len(All) = Len(sent) + Len(queue) /\ Len(sent) \in Nat
          BY <1>0, RecsFacts
        <4> QED BY <4>1, <4>2, <4>3, <3>2
      <3>5. All'[n + 1] = r /\ \A i \in 1..n : All'[i] = All[i]
        <4>1. /\ \A i \in 1..n :
                   All[i] = IF i <= Len(sent) THEN sent[i] ELSE queue[i - Len(sent)]
              /\ \A i \in 1..(n + 1) :
                   All'[i] = IF i <= Len(sent) THEN sent[i] ELSE queue'[i - Len(sent)]
          <5>1. sent \in Seq(Recs) /\ queue \in Seq(Recs) /\ queue' \in Seq(Recs)
            BY <1>0, <3>2 DEF EdgeType
          <5>2. All = sent \o queue
            BY DEF All
          <5>3. \A i \in 1..(Len(sent) + Len(queue)) :
                   All[i] = IF i <= Len(sent) THEN sent[i] ELSE queue[i - Len(sent)]
            BY <5>1, <5>2, ConcatFacts
          <5>4. \A i \in 1..(Len(sent) + Len(queue')) :
                   All'[i] = IF i <= Len(sent) THEN sent[i] ELSE queue'[i - Len(sent)]
            BY <5>1, <3>4, ConcatFacts
          <5>5. n = Len(sent) + Len(queue) /\ n + 1 = Len(sent) + Len(queue')
            BY <3>2, <3>4
          <5> HIDE DEF n, r
          <5> QED BY <5>3, <5>4, <5>5
        <4> HIDE DEF n, r
        <4>3. All'[n + 1] = r
          BY <4>1, <3>2, <3>4
        <4>4. ASSUME NEW i \in 1..n, i > Len(sent) PROVE i - Len(sent) \in 1..Len(queue)
          BY <4>4, <3>2, <3>4
        <4>5. ASSUME NEW i \in 1..n PROVE All'[i] = All[i]
          <5>1. i \in 1..(n + 1)
            BY <3>4
          <5>2. CASE i <= Len(sent)
            BY <4>1, <5>1, <5>2
          <5>3. CASE ~(i <= Len(sent))
            <6>1. i - Len(sent) \in 1..Len(queue)
              BY <4>4, <5>3, <3>4
            <6> QED BY <6>1, <4>1, <5>1, <5>3, <3>2
          <5> QED BY <5>2, <5>3
        <4> QED BY <4>3, <4>5
      <3>7. Ordered' /\ OfFile' /\ Latest' /\ EdgesIn'
        <4>1. r \in Recs /\ r.pos = unread + 1 /\ r.down = captured[unread + 1]
          BY <3>1
        <4> HIDE DEF r, n
        <4> QED BY <4>1, <1>0, <1>2, <3>3, <3>4, <3>5, EdgeAppended DEF n
      <3>8. Replaceable'
        <4> SUFFICES ASSUME NEW k \in 1..(Len(queue) + 1), ~queue'[k].edge
                     PROVE  ~IsEdge(queue'[k].pos)
          BY <1>0, <3>2 DEF Replaceable, IsEdge
        <4>1. CASE k = Len(queue) + 1
          <5>1. queue'[k] = r /\ r.pos = pos /\ r.edge = ~again
            BY <4>1, <3>2
          <5>2. again
            BY <5>1
          <5> QED BY <5>1, <5>2, <2>3
        <4>2. CASE k \in 1..Len(queue)
          BY <4>2, <3>2 DEF EdgeInv, Replaceable
        <4> QED BY <4>1, <4>2, <3>2
      <3> QED BY <3>3, <3>7, <3>8 DEF EdgeInv
    <2> QED BY <2>4, <2>5
  <1> QED BY <1>1, <1>2 DEF ReadEvent

\* A sent record only moves from one history to the other.
LEMMA EdgeSend == ASSUME EdgeInv, SendPacket PROVE EdgeInv'
  <1>0. EdgeType /\ UNCHANGED <<base, captured, unread>>
    BY DEF SendPacket, EdgeInv
  <1>1. CASE steps # <<>>
    BY <1>0, <1>1, EdgeQuiet DEF SendPacket, EdgeType
  <1>2. CASE steps = <<>>
    <2>1. queue # <<>> /\ queue' = Tail(queue) /\ sent' = Append(sent, Head(queue))
      BY <1>2 DEF SendPacket
    <2>2. /\ sent \in Seq(Recs) /\ queue \in Seq(Recs) /\ Len(queue) \in Nat \ {0}
          /\ queue' \in Seq(Recs) /\ Head(queue) = queue[1] /\ Head(queue) \in Recs
          /\ Len(queue') = Len(queue) - 1
          /\ \A i \in 1..(Len(queue) - 1) : queue'[i] = queue[i + 1]
      BY <1>0, <2>1, TailFacts DEF EdgeType
    <2>3. sent' \in Seq(Recs)
      BY <2>1, <2>2, AppendFacts
    <2>4. All' = All
      <3>1. queue = <<Head(queue)>> \o Tail(queue)
        BY <2>1, <2>2
      <3>2. Append(sent, Head(queue)) = sent \o <<Head(queue)>>
        BY <2>2
      <3>3. \A a, b, c \in Seq(Recs) : (a \o b) \o c = a \o (b \o c)
        OBVIOUS
      <3> QED BY <2>1, <2>2, <3>1, <3>2, <3>3 DEF All
    <2>5. EdgeType' /\ Ordered' /\ OfFile' /\ Latest' /\ EdgesIn'
      BY <1>0, <2>2, <2>3, <2>4 DEF EdgeInv, EdgeType, Ordered, OfFile, Latest, EdgesIn, IsEdge
    <2>6. Replaceable'
      <3> SUFFICES ASSUME NEW k \in 1..Len(queue'), ~queue'[k].edge
                   PROVE  ~IsEdge(queue'[k].pos)
        BY <1>0 DEF Replaceable, IsEdge
      <3>1. k + 1 \in 1..Len(queue) /\ queue'[k] = queue[k + 1]
        BY <2>2
      <3> QED BY <3>1 DEF EdgeInv, Replaceable
    <2> QED BY <2>5, <2>6 DEF EdgeInv
  <1> QED BY <1>1, <1>2

LEMMA EdgeStart ==
    ASSUME EdgeInv, NEW m, NEW r, NEW replay, Start(m, r, replay)
    PROVE  EdgeInv'
  <1>1. /\ sent' = <<>> /\ queue' = <<>> /\ captured' = captured /\ unread' = base'
        /\ base' \in Nat /\ base' <= Len(captured)
    BY DEF Start, EdgeInv, EdgeType
  <1>2. EdgeType' /\ Len(sent') = 0 /\ Len(queue') = 0
    BY <1>1 DEF EdgeInv, EdgeType
  <1>3. Len(All') = 0
    BY <1>1 DEF All
  <1>4. Ordered' /\ OfFile' /\ Replaceable'
    BY <1>1, <1>2, <1>3 DEF Ordered, OfFile, Replaceable
  <1>5. Latest' /\ EdgesIn'
    BY <1>1 DEF Latest, EdgesIn
  <1> QED BY <1>2, <1>4, <1>5 DEF EdgeInv

LEMMA EdgeNext == ASSUME EdgeInv, RelayNext PROVE EdgeInv'
  <1>0. captured \in Seq(BOOLEAN)
    BY DEF EdgeInv, EdgeType
  <1>1. ASSUME NEW d \in BOOLEAN, Capture(d) PROVE EdgeInv'
    <2>1. UNCHANGED <<base, unread, sent, queue>> /\ captured' = Append(captured, d)
      BY <1>1 DEF Capture, hostVars
    <2> QED BY <1>0, <2>1, AppendFacts, EdgeQuiet
  <1>2. CASE Receive \/ Timeout \/ Return \/ Kill \/ GuestRestart
             \/ \E posted \in BOOLEAN : GuestLine(posted)
    <2>1. UNCHANGED <<base, unread, sent, queue, captured>>
      BY <1>2 DEF Receive, Timeout, Return, Kill, GuestRestart, GuestLine, hostVars
    <2> QED BY <1>0, <2>1, EdgeQuiet
  <1> QED BY <1>1, <1>2, EdgeRead, EdgeSend, EdgeStart DEF RelayNext

LEMMA EdgeInitially == RelayInit => EdgeInv
  <1> SUFFICES ASSUME RelayInit PROVE EdgeInv
    OBVIOUS
  <1>1. sent = <<>> /\ queue = <<>> /\ captured = <<>> /\ base = 0 /\ unread = 0
    BY DEF RelayInit
  <1>2. EdgeType /\ Len(All) = 0 /\ Len(queue) = 0
    BY <1>1 DEF EdgeType, All
  <1> QED BY <1>1, <1>2 DEF EdgeInv, Ordered, OfFile, Latest, EdgesIn, Replaceable

LEMMA EdgeConclusion == EdgeInv => EdgesKept
  <1> SUFFICES ASSUME EdgeInv PROVE EdgesKept
    OBVIOUS
  <1>1. /\ DOMAIN Forwarded = 1..Len(All) /\ Len(All) \in Nat
        /\ \A i \in 1..Len(All) : Forwarded[i] = All[i].pos
    BY RecsFacts DEF EdgeInv, Forwarded, All
  <1>2. ASSUME NEW i \in (base + 1)..unread, IsEdge(i) \/ i = unread
        PROVE  \E k \in 1..Len(All) : All[k].pos = i
    <2>1. CASE IsEdge(i)
      BY <2>1 DEF EdgeInv, EdgesIn
    <2>2. CASE i = unread
      BY <2>2, <1>1 DEF EdgeInv, Latest, EdgeType
    <2> QED BY <1>2, <2>1, <2>2
  <1>3. \A i \in (base + 1)..unread : IsEdge(i) \/ i = unread => i \in ToSet(Forwarded)
    BY <1>1, <1>2 DEF ToSet
  <1>4. \A i, j \in DOMAIN Forwarded : i < j => Forwarded[i] < Forwarded[j]
    BY <1>1 DEF EdgeInv, Ordered
  <1> QED BY <1>3, <1>4 DEF EdgesKept

\* "Coalesce consecutive motion states, preserve press/release transitions": for
\* any capacity of the queue, length of the file and number of relays, every
\* change of the button that a relay has read, and the latest state, is queued
\* or was sent, in the order of the file.
THEOREM RelayEdgesKept == Spec => []EdgesKept
  <1>1. Init => EdgeInv
    BY EdgeInitially DEF Init
  <1>2. EdgeInv /\ [Next]_vars => EdgeInv'
    <2> SUFFICES ASSUME EdgeInv, [Next]_vars PROVE EdgeInv'
      OBVIOUS
    <2>1. CASE RelayNext
      BY <2>1, EdgeNext
    <2>2. CASE UNCHANGED relayVars
      <3>1. UNCHANGED <<base, unread, sent, queue, captured>>
        BY <2>2 DEF relayVars, hostVars
      <3>2. captured \in Seq(BOOLEAN)
        BY DEF EdgeInv, EdgeType
      <3> QED BY <3>1, <3>2, EdgeQuiet
    <2> QED BY <2>1, <2>2 DEF Next, vars
  <1> QED BY <1>1, <1>2, EdgeConclusion, PTL DEF Spec

-----------------------------------------------------------------------------
(* The warm-boot probes. *)

\* What the variables hold.
WarmType ==
    /\ probe \in {"boot", "smp", "observe"} /\ keep \in BOOLEAN
    /\ vm \in {"none", "running", "paused", "ended"}
    /\ lines \in Seq(LineKinds)
    /\ written \in Nat /\ offset \in Nat /\ got \in Nat /\ tail \in Nat

\* The lines whose marker is to be in the report.
Reported == {j \in 1..Len(lines) : lines[j] # "plain" /\ Readable(j)}
Evidence == {Marker(lines[i]) : i \in Reported}

\* The log has no byte beyond its last line, and the probe has read no further than
\* what is written.  What it holds of an unfinished line is all of it that came
\* after the start.
LogInv ==
    /\ offset <= got /\ got <= written /\ written <= 3 * Len(lines)
    /\ probe = "smp" => tail = 0 /\ offset = 0
    /\ probe # "smp" => /\ offset <= TextStart /\ 3 * (got \div 3) <= TextStart
                        /\ TextStart = offset \/ TextStart = 3 * (got \div 3)
    /\ noted = Evidence

\* The verdict, which nothing before the first poll can spoil.
JudgedInv ==
    /\ wpc \in {"launch", "monitor"} => noted = {} /\ reason = "deadline"
    /\ (wpc \in Finally \cup {"done"} /\ "interrupt" \notin mishaps) =>
          /\ reason = "deadline" => "failure" \notin noted
          /\ reason = "milestone" /\ probe # "observe" => "failure" \notin noted

\* The guest on the way through the finally block.
Loose == "signal" \in mishaps
VmInv ==
    /\ probe = "smp" => ~keep
    /\ kept => keep
    /\ wpc = "launch" => vm = "none"
    /\ wpc = "report" /\ probe = "boot" => keep \/ vm = "ended"
    /\ wpc \in {"reap", "report"} /\ probe # "smp" /\ vm = "running" => Loose \/ "monitor" \in mishaps
    /\ wpc \in Watching \cup {"report", "freeze"} /\ probe = "smp" => vm # "paused"
    /\ WarmSettled

WarmInv == WarmType /\ LogInv /\ JudgedInv /\ VmInv

\* At the launch there is no guest, no log and no report.
LEMMA WarmInitInv == WarmInit => WarmInv
  <1> SUFFICES ASSUME WarmInit PROVE WarmInv
    OBVIOUS
  <1> USE DEF WarmInit
  <1>1. probe \in {"boot", "smp"} /\ keep \in BOOLEAN /\ (keep => probe = "boot")
    OBVIOUS
  <1>2. WarmType
    BY <1>1 DEF WarmType
  <1>3. LogInv
    <2>1. Evidence = {}
      BY DEF Reported, Evidence
    <2>2. 3 * (0 \div 3) = 0
      OBVIOUS
    <2> QED BY <2>1, <2>2 DEF LogInv, TextStart
  <1>4. JudgedInv
    BY DEF JudgedInv, Finally
  <1>5. VmInv
    BY <1>1 DEF VmInv, Watching, WarmSettled
  <1> QED BY <1>2, <1>3, <1>4, <1>5 DEF WarmInv

\* The end of the last whole line.
LEMMA LastEnd ==
  ASSUME NEW n \in Nat
  PROVE  n \div 3 \in Nat /\ 3 * (n \div 3) <= n /\ n < 3 * (n \div 3) + 3
  OBVIOUS

\* A read of the log notes the markers of the lines it completes, and no others.
LEMMA PollInv == ASSUME WarmInv, Poll PROVE WarmInv'
  <1> USE DEF WarmInv, Poll, Goto, logVars
  <1>0. /\ written \in Nat /\ offset \in Nat /\ got \in Nat /\ tail \in Nat /\ Len(lines) \in Nat
        /\ offset <= got /\ got <= written /\ lines' = lines /\ probe' = probe /\ offset' = offset
        /\ got' = written /\ written' = written
    BY DEF WarmType, LogInv
  <1>1. Reported' = Reported \cup Matched
    <2>1. ASSUME NEW j \in 1..Len(lines), lines[j] # "plain", probe = "boot" => lines[j] # "txm"
          PROVE  j \in Reported' <=> j \in Reported \cup Matched
      <3>1. CASE probe = "smp"
        BY <1>0, <2>1, <3>1 DEF LogInv, Reported, Readable, Matched
      <3>2. CASE probe # "smp"
        <4>1. TextStart \in Int /\ offset <= TextStart
              /\ (TextStart = offset \/ TextStart = 3 * (got \div 3))
          BY <1>0, <3>2 DEF LogInv, TextStart
        <4>2. CASE 3 * j <= got
          <5>1. TextStart <= 3 * (j - 1) => offset <= 3 * (j - 1)
            BY <1>0, <4>1
          <5>2. 3 * j <= written
            BY <1>0, <4>2
          <5> QED BY <1>0, <2>1, <3>2, <4>2, <5>1, <5>2 DEF Reported, Readable, Matched
        <4>3. CASE ~(3 * j <= got)
          <5>1. 3 * (got \div 3) <= 3 * (j - 1)
            BY <1>0, <4>3, LastEnd
          <5>2. TextStart <= 3 * (j - 1) <=> offset <= 3 * (j - 1)
            BY <1>0, <4>1, <5>1
          <5> QED BY <1>0, <2>1, <3>2, <4>3, <5>2 DEF Reported, Readable, Matched
        <4> QED BY <4>2, <4>3
      <3> QED BY <3>1, <3>2
    <2>2. /\ Reported \cup Reported' \cup Matched \subseteq 1..Len(lines)
          /\ \A j \in Reported \cup Reported' \cup Matched :
                lines[j] # "plain" /\ (probe = "boot" => lines[j] # "txm")
      BY <1>0 DEF Reported, Readable, Matched
    <2> QED BY <2>1, <2>2
  <1>2. WarmType'
    <2>1. tail' \in Nat
      <3>1. TextStart \in Int /\ TextStart <= got
        BY <1>0 DEF TextStart
      <3> QED BY <1>0, <3>1, LastEnd DEF Unfinished
    <2> QED BY <2>1 DEF WarmType
  <1>3. LogInv'
    <2>1. noted' = Evidence'
      BY <1>0, <1>1 DEF LogInv, Evidence
    <2>2. CASE probe = "smp"
      BY <1>0, <2>1, <2>2 DEF LogInv
    <2>3. CASE probe # "smp"
      <3> DEFINE lastEnd == 3 * (written \div 3)
      <3>1. TextStart \in Int /\ lastEnd \in Nat
        BY <1>0, LastEnd DEF TextStart
      <3>2. TextStart' = IF TextStart > lastEnd THEN TextStart ELSE lastEnd
        <4>1. tail' = written - (IF TextStart > lastEnd THEN TextStart ELSE lastEnd)
          BY <2>3 DEF Unfinished
        <4> HIDE DEF lastEnd
        <4>2. TextStart' = written - tail'
          BY <1>0 DEF TextStart
        <4> QED BY <1>0, <3>1, <4>1, <4>2
      <3>3. 3 * (got \div 3) <= lastEnd
        BY <1>0, LastEnd
      <3>4. /\ offset <= TextStart
            /\ TextStart = offset \/ TextStart = 3 * (got \div 3)
        BY <2>3 DEF LogInv
      <3>5. 3 * (got' \div 3) = lastEnd
        BY <1>0
      <3>6. got \div 3 \in Nat
        BY <1>0, LastEnd
      <3> HIDE DEF lastEnd
      <3>7. offset <= TextStart' /\ lastEnd <= TextStart'
        BY <1>0, <3>1, <3>2, <3>4
      <3>8. TextStart' = offset \/ TextStart' = lastEnd
        BY <1>0, <3>1, <3>2, <3>3, <3>4, <3>6
      <3> QED BY <1>0, <2>1, <2>3, <3>5, <3>7, <3>8 DEF LogInv
    <2> QED BY <2>2, <2>3
  <1>4. JudgedInv'
    BY DEF JudgedInv, Finally
  <1>5. VmInv'
    BY DEF VmInv, Loose, WarmSettled, Watching
  <1> QED BY <1>2, <1>3, <1>4, <1>5

\* A part of a line more leaves every line that was read as it was.
LEMMA GuestWritesInv == ASSUME WarmInv, GuestWrites PROVE WarmInv'
  <1> USE DEF WarmInv, GuestWrites, readVars, reportVars
  <1>0. /\ written \in Nat /\ got \in Nat /\ Len(lines) \in Nat /\ got <= written
        /\ written <= 3 * Len(lines)
    BY DEF WarmType, LogInv
  <1>1. WarmType'
    BY DEF WarmType
  <1>2. /\ Len(lines') \in Nat /\ Len(lines) <= Len(lines') /\ written' <= 3 * Len(lines')
        /\ \A i \in 1..Len(lines) : lines'[i] = lines[i]
    <2>1. CASE written % 3 = 0
      <3>1. PICK k \in LineKinds : lines' = Append(lines, k)
        BY <2>1
      <3> QED BY <1>0, <3>1 DEF WarmType
    <2>2. CASE written % 3 # 0
      <3>1. written # 3 * Len(lines)
        BY <1>0, <2>2
      <3> QED BY <1>0, <2>2, <3>1
    <2> QED BY <2>1, <2>2
  <1>3. LogInv'
    <2>1. Reported' = Reported
      <3>1. ASSUME NEW j \in 1..Len(lines') PROVE j \in Reported' <=> j \in Reported
        <4>1. CASE j \in 1..Len(lines)
          BY <1>2, <4>1 DEF Reported, Readable
        <4>2. CASE j \notin 1..Len(lines)
          <5>1. j >= Len(lines) + 1
            BY <1>0, <1>2, <4>2
          <5>2. ~(3 * j - 1 <= got) /\ ~(3 * j <= got)
            BY <1>0, <1>2, <5>1
          <5> QED BY <4>2, <5>2 DEF Reported, Readable
        <4> QED BY <4>1, <4>2
      <3>2. Reported \subseteq 1..Len(lines') /\ Reported' \subseteq 1..Len(lines')
        BY <1>0, <1>2 DEF Reported
      <3> QED BY <3>1, <3>2
    <2>2. noted' = Evidence'
      <3>1. Reported \subseteq 1..Len(lines)
        BY DEF Reported
      <3> QED BY <1>2, <2>1, <3>1 DEF LogInv, Evidence, Marker
    <2>3. TextStart' = TextStart /\ got' = got /\ offset' = offset /\ probe' = probe /\ tail' = tail
      BY DEF TextStart
    <2>4. got' <= written'
      BY <1>0
    <2> QED BY <1>2, <2>2, <2>3, <2>4 DEF LogInv
  <1>4. JudgedInv'
    BY DEF JudgedInv
  <1>5. VmInv'
    BY DEF VmInv, Loose, WarmSettled, Watching
  <1> QED BY <1>1, <1>3, <1>4, <1>5

\* A step that leaves the log and what was read of it alone.
LEMMA LogSame ==
    ASSUME WarmType, LogInv, UNCHANGED <<lines, written, offset, got, tail, noted, probe, keep>>,
           vm' \in {"none", "running", "paused", "ended"}
    PROVE  WarmType' /\ LogInv'
  <1>1. WarmType'
    BY DEF WarmType
  <1>2. Reported' = Reported /\ TextStart' = TextStart
    BY DEF Reported, Readable, TextStart
  <1>3. Evidence' = Evidence
    BY <1>2 DEF Evidence
  <1> QED BY <1>1, <1>2, <1>3 DEF LogInv

\* The steps of the probes other than reading.
LEMMA WarmStepInv ==
    ASSUME WarmInv,
           LaunchVm \/ MonitorUp \/ Judge \/ MonitorFails \/ Interrupted \/ Terminated \/ Freeze
              \/ Reap \/ WarmReport \/ InterruptedLate \/ VmExits
    PROVE  WarmInv'
  <1> USE DEF WarmInv, Goto, logVars, readVars, reportVars
  <1>0. WarmType' /\ LogInv'
    <2>1. /\ UNCHANGED <<lines, written, offset, got, tail, noted, probe, keep>>
          /\ vm' \in {"none", "running", "paused", "ended"}
      BY DEF LaunchVm, MonitorUp, Judge, MonitorFails, Interrupted, Terminated, Freeze, Reap, Reaped,
             WarmReport, InterruptedLate, VmExits, WarmType
    <2> QED BY <2>1, LogSame
  <1> USE DEF WarmType, JudgedInv, VmInv, Loose, WarmSettled, Finally, Watching
  <1>1. CASE LaunchVm
    BY <1>0, <1>1 DEF LaunchVm
  <1>2. CASE MonitorUp
    BY <1>0, <1>2 DEF MonitorUp
  <1>3. CASE Judge
    BY <1>0, <1>3 DEF Judge, Verdict, FinallyOf
  <1>4. CASE MonitorFails
    BY <1>0, <1>4 DEF MonitorFails, FinallyOf, ReasonOf
  <1>5. CASE Interrupted
    BY <1>0, <1>5 DEF Interrupted, FinallyOf, ReasonOf
  <1>6. CASE Terminated
    BY <1>0, <1>6 DEF Terminated
  <1>7. CASE Freeze
    BY <1>0, <1>7 DEF Freeze, AfterFreeze
  <1>8. CASE Reap
    BY <1>0, <1>8 DEF Reap, Reaped, AfterReap
  <1>9. CASE WarmReport
    BY <1>0, <1>9 DEF WarmReport, AfterReport
  <1>10. CASE InterruptedLate
    BY <1>0, <1>10 DEF InterruptedLate
  <1>11. CASE VmExits
    BY <1>0, <1>11 DEF VmExits
  <1> QED BY <1>1, <1>2, <1>3, <1>4, <1>5, <1>6, <1>7, <1>8, <1>9, <1>10, <1>11

\* An observation starts at the end of the log.
LEMMA ObserveInv == ASSUME WarmInv, Observe PROVE WarmInv'
  <1> USE DEF WarmInv, Observe, logVars
  <1>0. written \in Nat /\ Len(lines) \in Nat /\ written <= 3 * Len(lines)
    BY DEF WarmType, LogInv
  <1>1. WarmType'
    BY DEF WarmType
  <1>2. LogInv'
    <2>1. Evidence' = {}
      <3>1. Reported' = {}
        BY <1>0 DEF Reported, Readable
      <3> QED BY <3>1 DEF Evidence
    <2>2. TextStart' = written
      BY <1>0 DEF TextStart
    <2>3. 3 * (written \div 3) <= written
      BY <1>0, LastEnd
    <2> QED BY <1>0, <2>1, <2>2, <2>3 DEF LogInv
  <1>3. JudgedInv'
    BY DEF JudgedInv, Finally
  <1>4. VmInv'
    BY DEF VmInv, Loose, WarmSettled, WarmType, Watching
  <1> QED BY <1>1, <1>2, <1>3, <1>4

\* Every reachable state has the probes' invariant.
THEOREM WarmInvariant == Spec => []WarmInv
  <1>1. Init => WarmInv
    BY WarmInitInv DEF Init
  <1>2. WarmInv /\ [Next]_vars => WarmInv'
    <2> SUFFICES ASSUME WarmInv, [Next]_vars PROVE WarmInv'
      OBVIOUS
    <2>1. CASE WarmNext
      BY <2>1, PollInv, GuestWritesInv, WarmStepInv, ObserveInv DEF WarmNext
    <2>2. CASE UNCHANGED warmVars
      <3>1. WarmType' /\ LogInv'
        BY <2>2, LogSame DEF warmVars, logVars, readVars, reportVars, WarmInv, WarmType
      <3> QED BY <2>2, <3>1 DEF warmVars, reportVars, WarmInv, JudgedInv, VmInv, Loose, WarmSettled
    <2> QED BY <2>1, <2>2 DEF Next, vars
  <1> QED BY <1>1, <1>2, PTL DEF Spec

\* warm_boot_probe.py, smp_warm_probe.py and observe_warm_boot.py, whichever way
\* they end, leave QEMU running only after a signal outside their try block, a
\* monitor that failed, or (smp) a result that could not be written.
THEOREM WarmIsSettled == Spec => []WarmSettled
  <1>1. WarmInv => WarmSettled
    BY DEF WarmInv, VmInv
  <1> QED BY <1>1, WarmInvariant, PTL

\* Their reports name the markers of the lines they have read since they began, in
\* however many reads, and no others, but for warm_boot_probe's TXM lines; they
\* report no deadline over a failure, and but for observe_warm_boot no milestone.
THEOREM WarmVerdictTrue == Spec => []VerdictTrue
  <1>1. WarmInv => VerdictTrue
    BY DEF WarmInv, LogInv, Reported, Evidence, JudgedInv, VerdictTrue
  <1> QED BY <1>1, WarmInvariant, PTL

=============================================================================
