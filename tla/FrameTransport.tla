--------------------------- MODULE FrameTransport ---------------------------
(***************************************************************************)
(* The socket transport: Server of src/ipc.cpp and the client library of   *)
(* src/client.cpp, joined by one SOCK_SEQPACKET connection and a mapping   *)
(* of three frame slots.                                                   *)
(*                                                                         *)
(* Four threads take steps.  The render thread publishes and the input     *)
(* thread polls, each holding the server's mutex for several steps; the    *)
(* client's reader runs cl_read_frame, its tapper cl_tap.  The client      *)
(* shares no lock with the server: its steps fall between any two of them. *)
(*                                                                         *)
(* A slot's content is the number of the frame in each half of it, so that *)
(* a copy mixed from two frames is visible.  Tap, Start and Stop packets   *)
(* are queued alike and all called Tap here; a tap carries its number.     *)
(***************************************************************************)
EXTENDS Integers, Sequences, FiniteSets

CONSTANTS MaxFrames,        \* bound: frames published
          MaxTaps,          \* bound: taps sent
          MaxConnections,   \* bound: calls of cl_connect
          MaxMessages,      \* max_messages of poll
          QueueLength       \* packets the client can have in the socket

ASSUME TransportAssumption ==
    /\ MaxFrames \in Nat /\ MaxTaps \in Nat /\ MaxConnections \in Nat
    /\ MaxMessages \in Nat \ {0}
    /\ QueueLength \in Nat \ {0}

VARIABLES
    \* Server::Impl
    mutex,                  \* who holds it: "free", "publish" or "poll"
    client,                 \* the server's end of the connection: "none" or "open"
    latest_slot, leased_slot, slot_sequence, sequence, leased_sequence,
    request_after, request_pending, frame_reply_pending,
    deferred, delivery,
    writing,                \* the slot publish is copying into
    received,               \* packets drained by this poll
    \* the shared mapping and the socket
    slots,                  \* content of each slot
    up, down,               \* packets under way to the server, to the client
    peer,                   \* client's end as the server's socket sees it
    \* the client library
    handle_state,           \* "absent", "connecting" or "connected"
    reader,                 \* where cl_read_frame is, "idle" outside of it
    last_sequence, reading, release_pending,
    copy,                   \* the frame being copied
    frame,                  \* the frame last returned with CL_OK
    connections, sent,
    \* the application behind poll's callback
    delivered, failures     \* taps received, and the other events

slotVars   == <<latest_slot, slot_sequence, sequence, writing, slots>>
leaseVars  == <<client, leased_slot, leased_sequence, request_pending, frame_reply_pending>>
pollVars   == <<delivery, received>>
readerVars == <<reader, last_sequence, reading, release_pending, copy, frame>>
clientVars == <<handle_state, connections, sent>>
hostVars   == <<delivered, failures>>

vars == <<mutex, slotVars, leaseVars, request_after, deferred, pollVars, up, down, peer,
          readerVars, clientVars, hostVars>>

Slot   == 0..2
NoSlot == -1

Blank == [lo |-> 0, hi |-> 0]
NoCopy == [slot |-> 0, seq |-> 0, lo |-> 0, hi |-> 0]

Init ==
    /\ mutex = "free" /\ client = "none"
    /\ latest_slot = NoSlot /\ leased_slot = NoSlot
    /\ slot_sequence = [s \in Slot |-> 0]
    /\ sequence = 0 /\ leased_sequence = 0 /\ request_after = 0
    /\ request_pending = FALSE /\ frame_reply_pending = FALSE
    /\ deferred = <<>> /\ delivery = <<>>
    /\ writing = NoSlot /\ received = 0
    /\ slots = [s \in Slot |-> Blank]
    /\ up = <<>> /\ down = <<>> /\ peer = "open"
    /\ handle_state = "absent" /\ reader = "idle"
    /\ last_sequence = 0 /\ reading = FALSE /\ release_pending = FALSE
    /\ copy = NoCopy /\ frame = NoCopy
    /\ connections = 0 /\ sent = 0
    /\ delivered = <<>> /\ failures = {}

-----------------------------------------------------------------------------
(* Server::Impl *)

TapEvent(n)   == [kind |-> "Tap", tap |-> n]
Failure(kind) == [kind |-> kind, tap |-> 0]

(* disconnect, but for the event it defers: what the client had sent and    *)
(* nobody had received goes with the socket.                                *)
Hangup ==
    /\ client' = "none"
    /\ leased_slot' = NoSlot /\ leased_sequence' = 0
    /\ request_pending' = FALSE /\ frame_reply_pending' = FALSE
    /\ up' = <<>>

(* A lease is taken when a request waits and a newer frame is there. *)
LeaseDue ==
    /\ ~frame_reply_pending /\ request_pending
    /\ latest_slot' # NoSlot /\ sequence' > request_after

Leased(s) ==
    /\ leased_slot' = s
    /\ leased_sequence' = slot_sequence'[s]
    /\ request_pending' = FALSE

(* reply_if_ready, whose send may also find no room or the client gone; it  *)
(* leaves these events deferred.                                            *)
NoReply(events) ==
    /\ client = "none" \/ ~(LeaseDue \/ frame_reply_pending)
    /\ events = deferred
    /\ UNCHANGED <<leaseVars, up, down>>

Answer ==
    /\ client = "open" /\ peer = "open"
    /\ \/ LeaseDue /\ Leased(latest_slot')
       \/ /\ frame_reply_pending
          /\ UNCHANGED <<leased_slot, leased_sequence, request_pending>>
    /\ UNCHANGED <<client, up>>

ReplySent(events) ==
    /\ Answer
    /\ frame_reply_pending' = FALSE
    /\ down' = Append(down, [slot |-> leased_slot', seq |-> leased_sequence'])
    /\ events = deferred

ReplyBlocked(events) ==
    /\ Answer
    /\ frame_reply_pending' = TRUE
    /\ down' = down
    /\ events = deferred

ReplyFailed(events) ==
    /\ client = "open" /\ peer # "open"
    /\ LeaseDue \/ frame_reply_pending
    /\ Hangup
    /\ events = Append(deferred, Failure("Disconnect"))
    /\ UNCHANGED down

reply_if_ready(events) ==
    NoReply(events) \/ ReplySent(events) \/ ReplyBlocked(events) \/ ReplyFailed(events)

MayDefer == {deferred, Append(deferred, Failure("Disconnect"))}

Next3(s) == (s + 1) % 3

(* Faulty: the next slot is taken whether leased or not. *)
WriteSlot_Leased == Next3(latest_slot)

(* The slot after the latest, or the one after that if it is leased. *)
WriteSlot ==
    IF Next3(latest_slot) = leased_slot THEN Next3(leased_slot) ELSE Next3(latest_slot)

(* publish: lock, copy the frame into a slot, make it the latest, answer. *)
PublishBegin ==
    /\ mutex = "free" /\ sequence < MaxFrames
    /\ mutex' = "publish"
    /\ writing' = WriteSlot
    /\ slots' = [slots EXCEPT ![WriteSlot].lo = sequence + 1]
    /\ UNCHANGED <<latest_slot, slot_sequence, sequence, leaseVars, request_after, deferred,
                   pollVars, up, down, peer, readerVars, clientVars, hostVars>>

PublishEnd ==
    /\ mutex = "publish"
    /\ slots' = [slots EXCEPT ![writing].hi = sequence + 1]
    /\ latest_slot' = writing
    /\ sequence' = sequence + 1
    /\ slot_sequence' = [slot_sequence EXCEPT ![writing] = sequence + 1]
    /\ mutex' = "free" /\ writing' = NoSlot
    /\ \E events \in MayDefer : reply_if_ready(events) /\ deferred' = events
    /\ UNCHANGED <<request_after, pollVars, peer, readerVars, clientVars, hostVars>>

(* poll: lock, accept, drain at most MaxMessages packets, check for more,   *)
(* answer, swap the queues, unlock; then call back outside the lock.        *)

(* accept_clients comes before the drain: a client still marked open turns  *)
(* a newcomer away even if it has closed its end.                           *)
PollBegin ==
    /\ mutex = "free" /\ delivery = <<>>
    /\ mutex' = "poll" /\ received' = 0
    /\ \/ /\ handle_state = "connecting" /\ client = "none"
          /\ client' = "open" /\ handle_state' = "connected"
          /\ up' = <<>> /\ down' = <<>> /\ peer' = "open"
       \/ /\ handle_state = "connecting" /\ client = "open"
          /\ handle_state' = "absent"
          /\ UNCHANGED <<client, up, down, peer>>
       \/ /\ handle_state # "connecting"
          /\ UNCHANGED <<client, handle_state, up, down, peer>>
    /\ UNCHANGED <<slotVars, leased_slot, leased_sequence, request_pending, frame_reply_pending,
                   request_after, deferred, delivery, readerVars, connections, sent, hostVars>>

(* Faulty: one message too many is drained. *)
Draining_OneMore == mutex = "poll" /\ client = "open" /\ received <= MaxMessages

Draining == mutex = "poll" /\ client = "open" /\ received < MaxMessages

(* recv fails, or tells that the client has closed. *)
PollHangup ==
    /\ Draining
    /\ peer = "reset" \/ (peer = "closed" /\ up = <<>>)
    /\ Hangup
    /\ deferred' = Append(deferred, Failure("Disconnect"))
    /\ UNCHANGED <<mutex, slotVars, request_after, pollVars, down, peer, readerVars, clientVars, hostVars>>

ReleaseRefused(packet) ==
    \/ leased_slot = NoSlot \/ frame_reply_pending
    \/ packet.seq # leased_sequence \/ packet.slot # leased_slot

RequestRefused(packet) ==
    \/ request_pending \/ frame_reply_pending
    \/ leased_slot # NoSlot \/ packet.seq > sequence

(* handle: disconnect is what it does with a packet the protocol forbids    *)
(* now, and Failure("ProtocolError") the event it defers then.              *)
Refused(packet) ==
    /\ Hangup
    /\ deferred' = Append(deferred, Failure("ProtocolError"))
    /\ UNCHANGED request_after

HandleRelease(packet) ==
    /\ packet.op = "Release"
    /\ IF ReleaseRefused(packet)
       THEN Refused(packet)
       ELSE /\ leased_slot' = NoSlot /\ leased_sequence' = 0
            /\ up' = Tail(up)
            /\ UNCHANGED <<client, request_pending, frame_reply_pending, request_after, deferred>>

HandleRequest(packet) ==
    /\ packet.op = "Request"
    /\ IF RequestRefused(packet)
       THEN Refused(packet)
       ELSE /\ request_pending' = TRUE /\ request_after' = packet.seq
            /\ up' = Tail(up)
            /\ UNCHANGED <<client, leased_slot, leased_sequence, frame_reply_pending, deferred>>

HandleTap(packet) ==
    /\ packet.op = "Tap"
    /\ deferred' = Append(deferred, TapEvent(packet.seq))
    /\ up' = Tail(up)
    /\ UNCHANGED <<leaseVars, request_after>>

PollReceive ==
    /\ Draining
    /\ peer # "reset" /\ up # <<>>
    /\ LET packet == Head(up)
       IN  HandleRelease(packet) \/ HandleRequest(packet) \/ HandleTap(packet)
    /\ received' = received + 1
    /\ UNCHANGED <<mutex, slotVars, delivery, down, peer, readerVars, clientVars, hostVars>>

Drained ==
    /\ mutex = "poll"
    /\ client = "none" \/ received = MaxMessages \/ (peer = "open" /\ up = <<>>)

Overflowing == client = "open" /\ received = MaxMessages /\ peer # "reset" /\ up # <<>>

(* Faulty: the events stay deferred as well. *)
EndPoll_KeepsDeferred(events) ==
    /\ delivery' = events /\ deferred' = events
    /\ mutex' = "free"
    /\ UNCHANGED <<slotVars, request_after, received, readerVars, clientVars, hostVars>>

(* The events deferred so far are handed to the callback, unlocked. *)
EndPoll(events) ==
    /\ delivery' = events /\ deferred' = <<>>
    /\ mutex' = "free"
    /\ UNCHANGED <<slotVars, request_after, received, readerVars, clientVars, hostVars>>

(* Faulty: nobody is told of the overflow. *)
PollOverflow_Silent ==
    /\ Drained /\ Overflowing
    /\ Hangup
    /\ EndPoll(deferred)
    /\ UNCHANGED <<down, peer>>

PollOverflow ==
    /\ Drained /\ Overflowing
    /\ Hangup
    /\ EndPoll(Append(deferred, Failure("Overflow")))
    /\ UNCHANGED <<down, peer>>

(* The peek of the overflow check consumes a socket error it meets. *)
PollReply ==
    /\ Drained /\ ~Overflowing
    /\ \E events \in MayDefer : EndPoll(events) /\ reply_if_ready(events)
    /\ peer' = IF received = MaxMessages /\ peer = "reset" THEN "closed" ELSE peer

Deliver ==
    /\ mutex # "poll" /\ delivery # <<>>
    /\ IF Head(delivery).kind = "Tap"
       THEN delivered' = Append(delivered, Head(delivery).tap) /\ UNCHANGED failures
       ELSE failures' = failures \cup {Head(delivery).kind} /\ UNCHANGED delivered
    /\ delivery' = Tail(delivery)
    /\ UNCHANGED <<mutex, slotVars, leaseVars, request_after, deferred, received,
                   up, down, peer, readerVars, clientVars>>

-----------------------------------------------------------------------------
(* The client library *)

serverVars == <<mutex, slotVars, leaseVars, request_after, deferred, pollVars, hostVars>>

Connect ==
    /\ handle_state = "absent" /\ connections < MaxConnections
    /\ handle_state' = "connecting" /\ connections' = connections + 1
    /\ reader' = "idle" /\ last_sequence' = 0 /\ reading' = FALSE /\ release_pending' = FALSE
    /\ copy' = NoCopy /\ frame' = NoCopy
    /\ UNCHANGED <<serverVars, up, down, peer, sent>>

ConnectTimeout ==
    /\ handle_state = "connecting"
    /\ handle_state' = "absent"
    /\ UNCHANGED <<serverVars, up, down, peer, readerVars, connections, sent>>

(* cl_close, once no read is running.  Closing with a frame unread resets   *)
(* the connection; otherwise what was sent can still be received.           *)
Close ==
    /\ handle_state = "connected" /\ reader = "idle"
    /\ handle_state' = "absent"
    /\ peer' = IF down # <<>> THEN "reset" ELSE "closed"
    /\ down' = <<>>
    /\ UNCHANGED <<serverVars, up, readerVars, connections, sent>>

(* send_raw: the packet goes into the socket, or the call reports           *)
(* WOULD_BLOCK or DISCONNECTED and nothing is sent.                         *)
Open == handle_state = "connected" /\ client = "open"
Room == Len(up) < QueueLength
Packet(op, seq, slot) == [op |-> op, seq |-> seq, slot |-> slot]
Send(packet) == Open /\ Room /\ up' = Append(up, packet)

Tap ==
    /\ sent < MaxTaps
    /\ Send(Packet("Tap", sent + 1, 0))
    /\ sent' = sent + 1
    /\ UNCHANGED <<serverVars, down, peer, readerVars, handle_state, connections>>

(* cl_read_frame *)

Unread == UNCHANGED <<serverVars, peer, clientVars>>

ReadFrame ==
    /\ handle_state = "connected" /\ reader = "idle"
    /\ reader' = IF release_pending THEN "release" ELSE IF reading THEN "wait" ELSE "request"
    /\ UNCHANGED <<up, down, last_sequence, reading, release_pending, copy, frame>> /\ Unread

Release == Packet("Release", copy.seq, copy.slot)

ResendRelease ==
    /\ reader = "release"
    /\ Send(Release)
    /\ release_pending' = FALSE
    /\ reader' = IF reading THEN "wait" ELSE "request"
    /\ UNCHANGED <<down, last_sequence, reading, copy, frame>> /\ Unread

(* Faulty: the request is not remembered as outstanding. *)
SendRequest_Forgotten ==
    /\ reader = "request"
    /\ Send(Packet("Request", last_sequence, 0))
    /\ reader' = "wait"
    /\ UNCHANGED <<down, last_sequence, reading, release_pending, copy, frame>> /\ Unread

SendRequest ==
    /\ reader = "request"
    /\ Send(Packet("Request", last_sequence, 0))
    /\ reading' = TRUE
    /\ reader' = "wait"
    /\ UNCHANGED <<down, last_sequence, release_pending, copy, frame>> /\ Unread

(* The deadline passes with nothing sent or received. *)
ReadTimeout ==
    /\ \/ reader \in {"release", "request"} /\ Open /\ ~Room
       \/ reader = "wait" /\ Open /\ down = <<>>
    /\ reader' = "idle"
    /\ UNCHANGED <<up, down, last_sequence, reading, release_pending, copy, frame>> /\ Unread

(* The server has closed its end; a frame it sent before may be lost too,  *)
(* when it closed with packets of the client unread.                        *)
ReadDisconnected ==
    /\ reader \in {"release", "request", "wait", "copied"} /\ client = "none"
    /\ reader' = "idle"
    /\ UNCHANGED <<up, down, last_sequence, reading, release_pending, copy, frame>> /\ Unread

(* A frame not newer than the last one is a protocol error. *)
Stale(header) == header.seq <= last_sequence

ReceiveFrame ==
    /\ reader = "wait" /\ down # <<>>
    /\ down' = Tail(down)
    /\ LET header == Head(down)
       IN  IF Stale(header)
           THEN reader' = "failed" /\ UNCHANGED copy
           ELSE /\ reader' = "copy"
                /\ copy' = [slot |-> header.slot, seq |-> header.seq,
                            lo |-> slots[header.slot].lo, hi |-> 0]
    /\ UNCHANGED <<up, last_sequence, reading, release_pending, frame>> /\ Unread

(* Faulty: the request stays marked as outstanding. *)
CopyEnd_StillReading ==
    /\ reader = "copy"
    /\ copy' = [copy EXCEPT !.hi = slots[copy.slot].hi]
    /\ last_sequence' = copy.seq
    /\ release_pending' = TRUE
    /\ reader' = "copied"
    /\ UNCHANGED <<up, down, reading, frame>> /\ Unread

CopyEnd ==
    /\ reader = "copy"
    /\ copy' = [copy EXCEPT !.hi = slots[copy.slot].hi]
    /\ last_sequence' = copy.seq
    /\ reading' = FALSE
    /\ release_pending' = TRUE
    /\ reader' = "copied"
    /\ UNCHANGED <<up, down, frame>> /\ Unread

(* CL_OK, whether the release could be sent at once or must wait. *)
ReturnFrame ==
    /\ reader = "copied" /\ Open
    /\ \/ Send(Release) /\ release_pending' = FALSE
       \/ ~Room /\ UNCHANGED <<up, release_pending>>
    /\ frame' = copy
    /\ reader' = "idle"
    /\ UNCHANGED <<down, last_sequence, reading, copy>> /\ Unread

Client ==
    \/ Connect \/ ConnectTimeout \/ Close \/ Tap
    \/ ReadFrame \/ ResendRelease \/ SendRequest \/ ReadTimeout \/ ReadDisconnected
    \/ ReceiveFrame \/ CopyEnd \/ ReturnFrame

Server ==
    \/ PublishBegin \/ PublishEnd
    \/ PollBegin \/ PollHangup \/ PollReceive \/ PollOverflow \/ PollReply \/ Deliver

Next == Client \/ Server

Spec == Init /\ [][Next]_vars

(* The input thread polls in a loop and a socket without room has room      *)
(* again later; the render thread finishes what it began, and the reader    *)
(* takes what has arrived.                                                  *)
Fairness ==
    /\ WF_vars(PublishEnd) /\ WF_vars(PollBegin) /\ WF_vars(PollHangup)
    /\ WF_vars(PollReceive) /\ WF_vars(PollOverflow) /\ WF_vars(PollReply)
    /\ SF_vars(PollReply /\ Len(down') > Len(down))
    /\ WF_vars(Deliver)
    /\ WF_vars(ReceiveFrame) /\ WF_vars(ReadDisconnected)

FairSpec == Spec /\ Fairness

-----------------------------------------------------------------------------
(* Properties. *)

(* The state has the shape of the code's variables.  The events deferred    *)
(* between two polls fit the capacity the constructor reserved, so that no  *)
(* push_back allocates: a full drain, a disconnect before and after it.     *)
TypeOK ==
    /\ mutex \in {"free", "publish", "poll"} /\ client \in {"none", "open"}
    /\ {latest_slot, leased_slot, writing} \subseteq Slot \cup {NoSlot}
    /\ {sequence, leased_sequence, request_after, last_sequence} \subseteq 0..MaxFrames
    /\ slots \in [Slot -> [lo : 0..MaxFrames, hi : 0..MaxFrames]]
    /\ {request_pending, frame_reply_pending, reading, release_pending} \subseteq BOOLEAN
    /\ peer \in {"open", "closed", "reset"}
    /\ handle_state \in {"absent", "connecting", "connected"}
    /\ Len(up) <= QueueLength /\ received \in 0..MaxMessages
    /\ failures \subseteq {"Disconnect", "Overflow", "ProtocolError"}
    /\ Len(deferred) <= MaxMessages + 2 /\ Len(delivery) <= MaxMessages + 2

(* The client library keeps the protocol, whatever timeouts and refused     *)
(* sends it goes through: the server never accuses it of a ProtocolError    *)
(* and it never sees a stale frame itself.                                  *)
Conforms ==
    /\ reader # "failed"
    /\ Failure("ProtocolError") \notin {deferred[k] : k \in DOMAIN deferred}

(* Taps reach the application in the order they were sent, none twice.      *)
TapsInOrder == \A j, k \in DOMAIN delivered : j < k => delivered[j] < delivered[k]

TapsIn(events) == {events[k].tap : k \in {j \in DOMAIN events : events[j].kind = "Tap"}}
TapsUnderWay == {up[k].seq : k \in {j \in DOMAIN up : up[j].op = "Tap"}}
TapsReceived ==
    TapsIn(deferred) \cup TapsIn(delivery) \cup {delivered[k] : k \in DOMAIN delivered}

Lost == (1..sent) \ (TapsUnderWay \cup TapsReceived)

InvalidatingFailures ==
    {"Overflow", "ProtocolError"} \cap
    (failures \cup {deferred[k].kind : k \in DOMAIN deferred}
              \cup {delivery[k].kind : k \in DOMAIN delivery})

(* While the first connection lasts a tap the library accepted is lost only *)
(* to an overflow, and an overflow is reported to the run.                  *)
NoTapLostWhileConnected ==
    Lost # {} /\ connections = 1 /\ handle_state = "connected" => InvalidatingFailures # {}

(* README.md: "input events may not be silently dropped".  Every tap the    *)
(* library accepted is under way, received, or lost to a failure that       *)
(* invalidates the run.                                                     *)
NoTapSilentlyDropped == Lost = {} \/ InvalidatingFailures # {}

(* The reader sees a mailbox of whole frames, each newer than the last.     *)
Mailbox == INSTANCE FrameMailbox WITH
    published <- sequence,
    shown <- IF frame.lo = frame.seq /\ frame.hi = frame.seq THEN frame.seq ELSE -1

(* client.h: a successful read returns one complete frame, never a mixture  *)
(* of two, even if the publisher laps the reader or the server drops the    *)
(* connection in the middle of the copy.                                    *)
ImplementsMailbox == Mailbox!MailboxSpec

(* A read that waits for a frame the server already has is answered.        *)
ReadAnswered == reader = "wait" /\ sequence > last_sequence ~> reader # "wait"
=============================================================================
