--------------------------- MODULE TransportProofs --------------------------
(***************************************************************************)
(* Conforms, TapsInOrder, NoTapLostWhileConnected, the type invariant and  *)
(* ImplementsMailbox for FrameTransport, for any number of frames, taps    *)
(* and connections, any depth of the socket's queue and any max_messages.  *)
(***************************************************************************)
EXTENDS FrameTransport, SequenceTheorems, TLAPS

-----------------------------------------------------------------------------
(* Types.  Nothing is numbered above the frame published last. *)

Event   == [kind : {"Tap", "Disconnect", "Overflow", "ProtocolError"}, tap : Nat]
Message == [op : {"Tap", "Release", "Request"}, seq : Nat, slot : Nat]
Image   == [slot : Slot, seq : Nat, lo : Nat, hi : Nat]

ServerTypes ==
    /\ mutex \in {"free", "publish", "poll"} /\ client \in {"none", "open"}
    /\ latest_slot \in Slot \cup {NoSlot} /\ leased_slot \in Slot \cup {NoSlot}
    /\ writing \in Slot \cup {NoSlot}
    /\ sequence \in 0..MaxFrames
    /\ leased_sequence \in 0..sequence /\ request_after \in 0..sequence
    /\ received \in 0..MaxMessages

SlotTypes ==
    /\ slots \in [Slot -> [lo : 0..MaxFrames, hi : 0..MaxFrames]]
    /\ slot_sequence \in [Slot -> 0..MaxFrames]

UpTypes == up \in Seq(Message) /\ Len(up) <= QueueLength

DownTypes == down \in Seq([slot : Slot, seq : Nat])

EventTypes ==
    /\ deferred \in Seq(Event) /\ delivery \in Seq(Event)
    /\ delivered \in Seq(Nat)
    /\ failures \subseteq {"Disconnect", "Overflow", "ProtocolError"}

ClientTypes ==
    /\ peer \in {"open", "closed", "reset"}
    /\ handle_state \in {"absent", "connecting", "connected"}
    /\ reader \in {"idle", "release", "request", "wait", "copy", "copied"}
    /\ last_sequence \in 0..sequence
    /\ copy \in Image /\ copy.seq \in 0..sequence /\ frame \in Image
    /\ connections \in Nat /\ sent \in Nat

Flags ==
    /\ request_pending \in BOOLEAN /\ frame_reply_pending \in BOOLEAN
    /\ reading \in BOOLEAN /\ release_pending \in BOOLEAN

Types == ServerTypes /\ SlotTypes /\ UpTypes /\ DownTypes /\ EventTypes /\ ClientTypes

-----------------------------------------------------------------------------
(* The slots.  Only the slot that publish is filling is not whole, it is    *)
(* never the leased one, and it is filled under the mutex.                  *)

Filling ==
    /\ mutex = "publish" <=> writing # NoSlot
    /\ writing # NoSlot => /\ writing # leased_slot
                           /\ sequence < MaxFrames /\ slots[writing].lo = sequence + 1

Whole == \A s \in Slot : s # writing => /\ slots[s].lo = slot_sequence[s]
                                        /\ slots[s].hi = slot_sequence[s]

Newest == IF latest_slot = NoSlot THEN sequence = 0 ELSE slot_sequence[latest_slot] = sequence

Lease ==
    /\ leased_slot # NoSlot => slot_sequence[leased_slot] = leased_sequence
    /\ client = "none" => /\ leased_slot = NoSlot /\ up = <<>>
                          /\ ~request_pending /\ ~frame_reply_pending

-----------------------------------------------------------------------------
(* The protocol.  What the server holds of the two packets that steer it    *)
(* fits its state: the release of its lease, and after it one request.      *)

Has(op) == \E k \in 1..Len(up) : up[k].op = op

ReleasesFit == \A k \in 1..Len(up) : up[k].op = "Release" =>
    /\ leased_slot # NoSlot /\ up[k].slot = leased_slot /\ up[k].seq = leased_sequence
    /\ ~request_pending /\ ~frame_reply_pending
    /\ \A j \in 1..Len(up) : up[j].op = "Release" => j = k

RequestsFit == \A k \in 1..Len(up) : up[k].op = "Request" =>
    /\ ~request_pending /\ ~frame_reply_pending /\ up[k].seq <= sequence
    /\ leased_slot # NoSlot => Has("Release")
    /\ \A j \in 1..Len(up) : /\ up[j].op = "Request" => j = k
                             /\ up[j].op = "Release" => j < k

PendingFits ==
    /\ request_pending => leased_slot = NoSlot /\ ~frame_reply_pending
    /\ frame_reply_pending => leased_slot # NoSlot

(* Where the reader is tells what it owes, and what the server owes it.     *)

Places ==
    /\ handle_state # "connected" => reader = "idle"
    /\ handle_state = "connecting" => ~reading /\ ~release_pending
    /\ handle_state = "connected" => peer = "open"
    /\ reader \in {"release", "copied"} => release_pending
    /\ release_pending => ~reading /\ reader \in {"idle", "release", "copied"}
    /\ reader = "request" => ~reading
    /\ reader \in {"wait", "copy"} => reading

Down ==
    handle_state = "connected" =>
        /\ down # <<>> => reading /\ reader # "copy"
        /\ Len(down) <= 1
        /\ \A k \in 1..Len(down) : last_sequence < down[k].seq /\ down[k].seq <= sequence
        /\ client = "open" => \A k \in 1..Len(down) : /\ down[k].slot = leased_slot
                                                      /\ down[k].seq = leased_sequence
                                                      /\ ~frame_reply_pending

HoldsLease == leased_slot # NoSlot /\ copy.slot = leased_slot /\ copy.seq = leased_sequence

Quiet == ~Has("Request") /\ ~request_pending /\ ~frame_reply_pending /\ down = <<>>

OwesNothing == Open /\ (~reading \/ reader = "copy") => Quiet

Holding == Open /\ (release_pending \/ reader = "copy") => HoldsLease /\ ~Has("Release")

Returned ==
    Open /\ ~reading /\ ~release_pending /\ leased_slot # NoSlot => HoldsLease /\ Has("Release")

Waiting ==
    Open /\ reading /\ reader # "copy" =>
        /\ \A k \in 1..Len(up) : up[k].op = "Request" => up[k].seq = last_sequence
        /\ request_pending => request_after = last_sequence
        /\ frame_reply_pending => last_sequence < leased_sequence
        /\ down # <<>> => ~Has("Request") /\ ~request_pending
        /\ down # <<>> => leased_slot # NoSlot /\ ~Has("Release")
        /\ leased_slot # NoSlot /\ down = <<>> /\ ~frame_reply_pending => Has("Request")

(* A read that succeeds returns what the lease protected.                   *)

Copies ==
    /\ reader = "copy" => last_sequence < copy.seq
    /\ reader = "copy" /\ Open => copy.lo = copy.seq
    /\ reader = "copied" /\ Open => copy.lo = copy.seq /\ copy.hi = copy.seq
    /\ IF reader = "copied" THEN frame.seq < copy.seq /\ last_sequence = copy.seq
                            ELSE frame.seq <= last_sequence
    /\ frame.lo = frame.seq /\ frame.hi = frame.seq

-----------------------------------------------------------------------------
(* The events. *)

NotAccused == \A k \in 1..Len(deferred) : deferred[k].kind # "ProtocolError"

EventRoom ==
    /\ mutex # "poll" => Len(deferred) <= 1 /\ (client = "open" => deferred = <<>>)
    /\ mutex = "poll" => Len(deferred) <= 1 + received + (IF client = "none" THEN 1 ELSE 0)
    /\ Len(delivery) <= MaxMessages + 2
    /\ mutex = "poll" => delivery = <<>>

(* Every tap is in one of four queues, the later ones in the earlier ones.  *)
Increasing(q) == \A j, k \in 1..Len(q) :
    q[j].kind = "Tap" /\ q[k].kind = "Tap" /\ j < k => q[j].tap < q[k].tap

Before(q, r) == \A j \in 1..Len(q), k \in 1..Len(r) :
    q[j].kind = "Tap" /\ r[k].kind = "Tap" => q[j].tap < r[k].tap

BeforeUp(q) == \A j \in 1..Len(q), k \in 1..Len(up) :
    q[j].kind = "Tap" /\ up[k].op = "Tap" => q[j].tap < up[k].seq

UpIncreasing == \A j, k \in 1..Len(up) :
    up[j].op = "Tap" /\ up[k].op = "Tap" /\ j < k => up[j].seq < up[k].seq

DeliveredIncreasing == \A j, k \in 1..Len(delivered) : j < k => delivered[j] < delivered[k]

DeliveredBefore(q) == \A j \in 1..Len(delivered), k \in 1..Len(q) :
    q[k].kind = "Tap" => delivered[j] < q[k].tap

DeliveredBeforeUp == \A j \in 1..Len(delivered), k \in 1..Len(up) :
    up[k].op = "Tap" => delivered[j] < up[k].seq

Ascending ==
    /\ DeliveredIncreasing /\ Increasing(delivery) /\ Increasing(deferred) /\ UpIncreasing
    /\ DeliveredBefore(delivery) /\ DeliveredBefore(deferred) /\ DeliveredBeforeUp
    /\ Before(delivery, deferred) /\ BeforeUp(delivery) /\ BeforeUp(deferred)

NotAhead ==
    /\ \A k \in 1..Len(delivered) : delivered[k] <= sent
    /\ \A k \in 1..Len(delivery) : delivery[k].kind = "Tap" => delivery[k].tap <= sent
    /\ \A k \in 1..Len(deferred) : deferred[k].kind = "Tap" => deferred[k].tap <= sent
    /\ \A k \in 1..Len(up) : up[k].op = "Tap" => up[k].seq <= sent

(* An event the server has deferred is on its way to the application or has *)
(* reached it, and a tap is on the wire or such an event.                   *)
Reached(e) ==
    IF e.kind = "Tap" THEN \E k \in 1..Len(delivered) : delivered[k] = e.tap
                      ELSE e.kind \in failures

Held(e) ==
    \/ \E k \in 1..Len(deferred) : deferred[k] = e
    \/ \E k \in 1..Len(delivery) : delivery[k] = e
    \/ Reached(e)

Found(n) == Held(TapEvent(n)) \/ \E k \in 1..Len(up) : up[k].op = "Tap" /\ up[k].seq = n

Alarmed == \E e \in Event : e.kind \in {"Overflow", "ProtocolError"} /\ Held(e)

(* On the first connection a tap is lost only to an overflow.               *)
Kept ==
    /\ connections = 0 => handle_state = "absent"
    /\ connections = 0 \/ (handle_state = "connecting" /\ connections = 1) => sent = 0
    /\ connections = 1 /\ handle_state = "connected" =>
          (client = "open" /\ \A n \in 1..sent : Found(n)) \/ Alarmed

TInv ==
    /\ Types /\ Flags /\ Filling /\ Whole /\ Newest /\ Lease
    /\ ReleasesFit /\ RequestsFit /\ PendingFits /\ Places /\ Down
    /\ OwesNothing /\ Holding /\ Returned /\ Waiting /\ Copies
    /\ NotAccused /\ EventRoom /\ Ascending /\ NotAhead /\ Kept

-----------------------------------------------------------------------------
LEMMA Elements == ASSUME NEW S, NEW s \in Seq(S) PROVE \A k \in 1..Len(s) : s[k] \in S
OBVIOUS

LEMMA AppendFacts ==
    ASSUME NEW S, NEW s \in Seq(S), NEW e \in S
    PROVE  /\ Append(s, e) \in Seq(S) /\ Len(Append(s, e)) = Len(s) + 1
           /\ Append(s, e)[Len(s) + 1] = e /\ \A k \in 1..Len(s) : Append(s, e)[k] = s[k]
OBVIOUS

LEMMA AppendCases ==
    ASSUME NEW S, NEW s \in Seq(S), NEW e \in S
    PROVE  \A k \in 1..Len(Append(s, e)) :
              (k \in 1..Len(s) /\ Append(s, e)[k] = s[k]) \/ (k = Len(s) + 1 /\ Append(s, e)[k] = e)
<1> DEFINE t == Append(s, e)
<1>1. Len(s) \in Nat /\ Len(t) = Len(s) + 1 /\ t[Len(s) + 1] = e
  OBVIOUS
<1>2. \A k \in 1..Len(s) : t[k] = s[k]
  OBVIOUS
<1> HIDE DEF t
<1>3. ASSUME NEW k \in 1..Len(t) PROVE k \in 1..Len(s) \/ k = Len(s) + 1
  BY <1>1
<1>4. \A k \in 1..Len(t) : (k \in 1..Len(s) /\ t[k] = s[k]) \/ (k = Len(s) + 1 /\ t[k] = e)
  BY <1>1, <1>2
<1>5. QED
  BY <1>4 DEF t

LEMMA TailFacts ==
    ASSUME NEW S, NEW s \in Seq(S), s # <<>>
    PROVE  /\ Head(s) \in S /\ Head(s) = s[1] /\ 1 \in 1..Len(s)
           /\ Tail(s) \in Seq(S) /\ Len(Tail(s)) = Len(s) - 1
           /\ \A k \in 1..Len(Tail(s)) : k + 1 \in 1..Len(s) /\ Tail(s)[k] = s[k + 1]
OBVIOUS

LEMMA HasAppend ==
    ASSUME up \in Seq(Message), NEW p \in Message, up' = Append(up, p), NEW op
    PROVE  Has(op)' <=> Has(op) \/ p.op = op
<1>1. Len(up') = Len(up) + 1 /\ up'[Len(up) + 1] = p /\ \A k \in 1..Len(up) : up'[k] = up[k]
  OBVIOUS
<1>2. Len(up) \in Nat
  OBVIOUS
<1>3. QED
  BY <1>1, <1>2 DEF Has

LEMMA HasTail ==
    ASSUME up \in Seq(Message), up # <<>>, up' = Tail(up), NEW op
    PROVE  Has(op) <=> Has(op)' \/ Head(up).op = op
<1>1. /\ Head(up) = up[1] /\ 1 \in 1..Len(up) /\ Len(up') = Len(up) - 1
      /\ \A k \in 1..Len(up') : k + 1 \in 1..Len(up) /\ up'[k] = up[k + 1]
  OBVIOUS
<1>2. Len(up) \in Nat
  OBVIOUS
<1>3. ASSUME NEW k \in 1..Len(up), up[k].op = op PROVE Has(op)' \/ Head(up).op = op
  <2>1. CASE k = 1
    BY <1>3, <2>1
  <2>2. CASE k # 1
    <3>1. k - 1 \in 1..Len(up') /\ up'[k - 1] = up[k]
      BY <2>2
    <3>2. QED
      BY <1>3, <3>1 DEF Has
  <2>3. QED
    BY <2>1, <2>2
<1>4. QED
  BY <1>1, <1>3 DEF Has

LEMMA EmptyUp == ASSUME up' = <<>> PROVE UpTypes'
BY TransportAssumption DEF UpTypes

LEMMA TailUp == ASSUME UpTypes, up # <<>>, up' = Tail(up) PROVE UpTypes'
<1>1. up' \in Seq(Message) /\ Len(up') = Len(up) - 1 /\ Len(up) \in Nat
  BY DEF UpTypes
<1>2. QED
  BY <1>1, TransportAssumption DEF UpTypes

LEMMA Sends ==
    ASSUME UpTypes, NEW p \in Message, Send(p)
    PROVE  Open /\ up' = Append(up, p) /\ UpTypes'
<1>1. up' \in Seq(Message) /\ Len(up') = Len(up) + 1 /\ Len(up) \in Nat
  BY DEF UpTypes, Send
<1>2. QED
  BY <1>1, TransportAssumption DEF UpTypes, Send, Room

LEMMA Events ==
    /\ \A kind \in {"Disconnect", "Overflow", "ProtocolError"} : Failure(kind) \in Event
    /\ \A n \in Nat : TapEvent(n) \in Event
BY DEF Failure, TapEvent, Event

LEMMA Defers ==
    ASSUME NEW s \in Seq(Event), NEW e \in Event PROVE Append(s, e) \in Seq(Event)
OBVIOUS

LEMMA Packets ==
    ASSUME ClientTypes
    PROVE  /\ Packet("Tap", sent + 1, 0) \in Message /\ Release \in Message
           /\ Packet("Request", last_sequence, 0) \in Message
BY DEF ClientTypes, Message, Packet, Release, Image, Slot

(* What the server receives never breaks the protocol. *)
LEMMA Receives ==
    ASSUME TInv, PollReceive
    PROVE  /\ client = "open" /\ up # <<>> /\ up' = Tail(up) /\ received < MaxMessages /\
                mutex = "poll"
           /\ received' = received + 1 /\ UNCHANGED <<client, frame_reply_pending, mutex, delivery>>
           /\ UNCHANGED <<slotVars, down, peer, readerVars, clientVars, hostVars>>
           /\ Head(up).op # "Tap" => ~request_pending /\ ~frame_reply_pending
           /\ \/ /\ Head(up).op = "Release" /\ leased_slot' = NoSlot /\ leased_sequence' = 0
                 /\ UNCHANGED <<request_pending, request_after, deferred>>
              \/ /\ Head(up).op = "Request" /\ request_pending' /\ request_after' = Head(up).seq
                 /\ request_after' \in 0..sequence
                 /\ leased_slot = NoSlot /\ UNCHANGED <<leased_slot, leased_sequence, deferred>>
              \/ /\ Head(up).op = "Tap" /\ deferred' = Append(deferred, TapEvent(Head(up).seq))
                 /\ UNCHANGED <<leased_slot, leased_sequence, request_pending, request_after>>
<1>1. up # <<>> /\ Draining
  BY DEF PollReceive
<1>2. Head(up) \in Message /\ Head(up) = up[1] /\ 1 \in 1..Len(up)
  BY <1>1 DEF TInv, Types, UpTypes
<1>3. HandleRelease(Head(up)) => ~ReleaseRefused(Head(up))
  BY <1>2 DEF HandleRelease, ReleaseRefused, TInv, ReleasesFit
<1>4. HandleRequest(Head(up)) => ~RequestRefused(Head(up))
  <2>1. Head(up).op = "Request" => ~Has("Release")
    BY DEF TInv, RequestsFit, Has
  <2>2. Head(up).op = "Request" => leased_slot = NoSlot /\ Head(up).seq <= sequence
    BY <1>2, <2>1 DEF TInv, RequestsFit
  <2>3. Head(up).op = "Request" => ~request_pending /\ ~frame_reply_pending
    BY <1>2 DEF TInv, RequestsFit
  <2>4. QED
    BY <1>2, <2>2, <2>3 DEF HandleRequest, RequestRefused, TInv, Types, ServerTypes,
       Message
<1>5. Head(up).op = "Request" => Head(up).seq \in 0..sequence
  BY <1>2 DEF TInv, RequestsFit, Message
<1>6. Head(up).op # "Tap" => ~request_pending /\ ~frame_reply_pending
  BY <1>2 DEF TInv, ReleasesFit, RequestsFit, Message
<1>7. QED
  BY <1>1, <1>3, <1>4, <1>5, <1>6 DEF PollReceive, Draining, HandleRelease,
     HandleRequest, RequestRefused, HandleTap, leaseVars

LEMMA WriteSlotFacts ==
    ASSUME latest_slot \in Slot \cup {NoSlot}, leased_slot \in Slot \cup {NoSlot}
    PROVE  WriteSlot \in Slot /\ WriteSlot # leased_slot /\ WriteSlot # NoSlot
<1>1. Next3(NoSlot) = 0 /\ Next3(0) = 1 /\ Next3(1) = 2 /\ Next3(2) = 0
  BY DEF Next3, NoSlot
<1>2. Slot = {0, 1, 2}
  BY DEF Slot
<1>3. QED
  BY <1>1, <1>2 DEF WriteSlot, NoSlot

LEMMA BeginFacts ==
    ASSUME TInv, PublishBegin
    PROVE  /\ mutex = "free" /\ mutex' = "publish" /\ writing = NoSlot /\ writing' = WriteSlot
           /\ sequence < MaxFrames /\ sequence + 1 \in 0..MaxFrames
           /\ writing' \in Slot /\ writing' # NoSlot /\ writing' # leased_slot
           /\ slots' \in [Slot -> [lo : 0..MaxFrames, hi : 0..MaxFrames]]
           /\ slots'[writing'].lo = sequence + 1
           /\ \A s \in Slot : s # writing' => slots'[s] = slots[s]
           /\ UNCHANGED <<latest_slot, slot_sequence, sequence, client, leased_slot,
                          leased_sequence, request_pending, frame_reply_pending, request_after,
                          deferred, delivery, received, up, down, peer>>
           /\ UNCHANGED <<readerVars, clientVars, hostVars>>
<1>1. writing' \in Slot /\ writing' # leased_slot /\ writing' = WriteSlot /\ writing' # NoSlot
  BY WriteSlotFacts DEF PublishBegin, TInv, Types, ServerTypes
<1>2. sequence + 1 \in 0..MaxFrames /\ sequence < MaxFrames
  BY TransportAssumption DEF PublishBegin, TInv, Types, ServerTypes
<1>3. slots \in [Slot -> [lo : 0..MaxFrames, hi : 0..MaxFrames]]
  BY DEF TInv, Types, SlotTypes
<1>4. slots' = [slots EXCEPT ![writing'].lo = sequence + 1]
  BY DEF PublishBegin
<1>5. /\ slots' \in [Slot -> [lo : 0..MaxFrames, hi : 0..MaxFrames]]
      /\ slots'[writing'].lo = sequence + 1
      /\ \A s \in Slot : s # writing' => slots'[s] = slots[s]
  BY <1>1, <1>2, <1>3, <1>4
<1>6. mutex = "free" /\ mutex' = "publish" /\ writing = NoSlot
  BY DEF PublishBegin, TInv, Filling
<1>7. QED
  BY <1>1, <1>2, <1>5, <1>6 DEF PublishBegin, leaseVars, pollVars

LEMMA EndFacts ==
    ASSUME TInv, PublishEnd
    PROVE  /\ mutex = "publish" /\ mutex' = "free" /\ writing \in Slot /\ writing' = NoSlot
           /\ writing # NoSlot /\ writing # leased_slot
           /\ latest_slot' = writing /\ sequence' = sequence + 1 /\ sequence' \in 0..MaxFrames
           /\ slots' \in [Slot -> [lo : 0..MaxFrames, hi : 0..MaxFrames]]
           /\ slots'[writing].lo = sequence' /\ slots'[writing].hi = sequence'
           /\ slot_sequence' \in [Slot -> 0..MaxFrames] /\ slot_sequence'[writing] = sequence'
           /\ \A s \in Slot : s # writing => /\ slots'[s] = slots[s]
                                             /\ slot_sequence'[s] = slot_sequence[s]
           /\ UNCHANGED <<request_after, delivery, received, peer>>
           /\ UNCHANGED <<readerVars, clientVars, hostVars>>
<1>1. /\ mutex = "publish" /\ writing # NoSlot /\ writing \in Slot /\ writing # leased_slot
      /\ slots[writing].lo = sequence + 1
  BY DEF PublishEnd, TInv, Types, ServerTypes, Filling
<1>2. sequence' = sequence + 1 /\ sequence + 1 \in 0..MaxFrames
  BY TransportAssumption DEF PublishEnd, TInv, Types, ServerTypes, Filling
<1>3. slots \in [Slot -> [lo : 0..MaxFrames, hi : 0..MaxFrames]]
  BY DEF TInv, Types, SlotTypes
<1>4. slot_sequence \in [Slot -> 0..MaxFrames]
  BY DEF TInv, Types, SlotTypes
<1>5. slots' = [slots EXCEPT ![writing].hi = sequence + 1]
  BY DEF PublishEnd
<1>6. slot_sequence' = [slot_sequence EXCEPT ![writing] = sequence + 1]
  BY DEF PublishEnd
<1>7. /\ slots' \in [Slot -> [lo : 0..MaxFrames, hi : 0..MaxFrames]]
      /\ slots'[writing].lo = sequence' /\ slots'[writing].hi = sequence'
      /\ \A s \in Slot : s # writing => slots'[s] = slots[s]
  BY <1>1, <1>2, <1>3, <1>5
<1>8. /\ slot_sequence' \in [Slot -> 0..MaxFrames] /\ slot_sequence'[writing] = sequence'
      /\ \A s \in Slot : s # writing => slot_sequence'[s] = slot_sequence[s]
  BY <1>1, <1>2, <1>4, <1>6
<1>9. QED
  BY <1>1, <1>2, <1>7, <1>8 DEF PublishEnd, pollVars

(* The queue of packets, one change at a time. *)
LEMMA ReleasesFitTap ==
    ASSUME UpTypes, ReleasesFit, NEW p \in Message, up' = Append(up, p), p.op # "Release",
           UNCHANGED leaseVars
    PROVE  ReleasesFit'
BY DEF ReleasesFit, leaseVars

LEMMA ReleasesFitRelease ==
    ASSUME UpTypes, ReleasesFit, up' = Append(up, Release), Release \in Message,
           Release.op = "Release", UNCHANGED leaseVars, HoldsLease, ~Has("Release"),
           ~request_pending, ~frame_reply_pending
    PROVE  ReleasesFit'
BY DEF ReleasesFit, leaseVars, HoldsLease, Has, Release, Packet

LEMMA ReleasesFitTail ==
    ASSUME UpTypes, ReleasesFit, up # <<>>, up' = Tail(up),
           UNCHANGED frame_reply_pending,
           \/ Head(up).op = "Release"
           \/ Head(up).op = "Tap" /\ UNCHANGED <<leased_slot, leased_sequence, request_pending>>
           \/ Head(up).op = "Request" /\ leased_slot = NoSlot
    PROVE  ReleasesFit'
<1>1. /\ Head(up) = up[1] /\ 1 \in 1..Len(up)
      /\ \A k \in 1..Len(up') : k + 1 \in 1..Len(up) /\ up'[k] = up[k + 1]
  OBVIOUS
<1>2. CASE Head(up).op = "Release"
  <2>1. \A k \in 1..Len(up') : up'[k].op # "Release"
    <3>1. \A k \in 1..Len(up') : k + 1 # 1
      OBVIOUS
    <3>2. QED
      BY <1>1, <1>2, <3>1 DEF ReleasesFit
  <2>2. QED
    BY <2>1 DEF ReleasesFit
<1>3. CASE Head(up).op = "Tap"
  BY DEF ReleasesFit
<1>4. CASE Head(up).op = "Request"
  BY DEF ReleasesFit
<1>5. QED
  BY <1>2, <1>3, <1>4

LEMMA RequestsFitTap ==
    ASSUME UpTypes, RequestsFit, NEW p \in Message, up' = Append(up, p), p.op = "Tap",
           UNCHANGED <<sequence, leaseVars>>
    PROVE  RequestsFit'
<1>1. \A k \in 1..Len(up') : \/ k \in 1..Len(up) /\ up'[k] = up[k]
                             \/ k = Len(up) + 1 /\ up'[k] = p
  OBVIOUS
<1>2. Has("Release")' <=> Has("Release")
  BY HasAppend DEF UpTypes
<1>3. QED
  BY <1>1, <1>2 DEF RequestsFit, leaseVars

LEMMA RequestsFitRelease ==
    ASSUME UpTypes, RequestsFit, Release \in Message, up' = Append(up, Release),
           Release.op = "Release", ~Has("Request"), UNCHANGED <<sequence, leaseVars>>
    PROVE  RequestsFit'
BY DEF RequestsFit, Has

LEMMA RequestsFitRequest ==
    ASSUME UpTypes, RequestsFit, NEW p \in Message, up' = Append(up, p), p.op = "Request",
           p.seq <= sequence, ~Has("Request"), leased_slot # NoSlot => Has("Release"),
           ~request_pending, ~frame_reply_pending, UNCHANGED <<sequence, leaseVars>>
    PROVE  RequestsFit'
<1>1. \A k \in 1..Len(up') : \/ k \in 1..Len(up) /\ up'[k] = up[k] /\ up[k].op # "Request"
                             \/ k = Len(up) + 1 /\ up'[k] = p
  BY DEF Has
<1>2. Has("Release")' <=> Has("Release")
  BY HasAppend DEF UpTypes
<1>3. QED
  BY <1>1, <1>2 DEF RequestsFit, leaseVars, UpTypes

LEMMA RequestsFitTail ==
    ASSUME UpTypes, RequestsFit, up # <<>>, up' = Tail(up),
           UNCHANGED <<sequence, frame_reply_pending>>,
           \/ Head(up).op = "Release" /\ leased_slot' = NoSlot /\ UNCHANGED request_pending
           \/ Head(up).op = "Tap" /\ UNCHANGED <<leased_slot, request_pending>>
           \/ Head(up).op = "Request"
    PROVE  RequestsFit'
<1>1. /\ Head(up) = up[1] /\ 1 \in 1..Len(up)
      /\ \A k \in 1..Len(up') : k + 1 \in 1..Len(up) /\ up'[k] = up[k + 1]
  OBVIOUS
<1>2. Has("Release") <=> Has("Release")' \/ Head(up).op = "Release"
  BY HasTail DEF UpTypes
<1>3. CASE Head(up).op = "Release"
  BY <1>3 DEF RequestsFit
<1>4. CASE Head(up).op = "Tap"
  BY <1>2 DEF RequestsFit
<1>5. CASE Head(up).op = "Request"
  <2>1. \A k \in 1..Len(up') : up'[k].op # "Request"
    <3>1. \A k \in 1..Len(up') : k + 1 # 1
      OBVIOUS
    <3>2. QED
      BY <1>1, <1>5, <3>1 DEF RequestsFit
  <2>2. QED
    BY <2>1 DEF RequestsFit
<1>6. QED
  BY <1>3, <1>4, <1>5

(* What publish and poll answer, if anything: nothing, a hangup, or a frame. *)
Silent ==
    UNCHANGED <<client, leased_slot, leased_sequence, request_pending, frame_reply_pending, up,
      down>>

Dropped == client' = "none" /\ client = "open" /\ peer # "open" /\ down' = down /\ up' = <<>>

Answered ==
    /\ client = "open" /\ peer = "open" /\ UNCHANGED <<client, up>>
    /\ ~request_pending' /\ leased_slot' # NoSlot
    /\ \/ /\ frame_reply_pending /\ ~request_pending
          /\ UNCHANGED <<leased_slot, leased_sequence>>
       \/ /\ request_pending /\ ~frame_reply_pending /\ leased_slot = NoSlot
          /\ leased_sequence' = sequence' /\ sequence' > request_after
    /\ \/ frame_reply_pending' /\ down' = down
       \/ /\ ~frame_reply_pending'
          /\ down' = Append(down, [slot |-> leased_slot', seq |-> leased_sequence'])

LEMMA Replied ==
    ASSUME TInv, NEW events, reply_if_ready(events),
           latest_slot' # NoSlot => slot_sequence'[latest_slot'] = sequence'
    PROVE  Silent \/ Dropped \/ Answered
<1>1. CASE NoReply(events)
  BY <1>1 DEF NoReply, leaseVars, Silent
<1>2. CASE ReplyFailed(events)
  BY <1>2 DEF ReplyFailed, Hangup, Dropped
<1>3. CASE ReplySent(events)
  BY <1>3 DEF ReplySent, Answer, LeaseDue, Leased, TInv, PendingFits, Answered
<1>4. CASE ReplyBlocked(events)
  BY <1>4 DEF ReplyBlocked, Answer, LeaseDue, Leased, TInv, PendingFits, Answered
<1>5. QED
  BY <1>1, <1>2, <1>3, <1>4 DEF reply_if_ready

LEMMA AsksFor ==
    ASSUME TInv, Open, request_pending \/ frame_reply_pending
    PROVE  /\ reading /\ reader # "copy" /\ down = <<>> /\ ~Has("Request") /\ ~Has("Release")
           /\ request_pending => request_after = last_sequence
           /\ frame_reply_pending => last_sequence < leased_sequence
<1>1. ~Has("Request") /\ ~Has("Release")
  BY DEF Has, TInv, ReleasesFit, RequestsFit
<1>2. reading /\ reader # "copy"
  BY DEF TInv, OwesNothing, Quiet
<1>3. CASE request_pending
  BY <1>1, <1>2, <1>3 DEF TInv, Waiting
<1>4. CASE frame_reply_pending
  <2>1. ASSUME down # <<>> PROVE FALSE
    <3>1. 1 \in 1..Len(down)
      BY <2>1
    <3>2. QED
      BY <1>4, <3>1 DEF TInv, Down, Open
  <2>2. QED
    BY <1>1, <1>2, <1>4, <2>1 DEF TInv, Waiting, PendingFits
<1>5. QED
  BY <1>3, <1>4

LEMMA Replies ==
    ASSUME TInv, PublishEnd \/ PollReply
    PROVE  /\ Silent \/ Dropped \/ Answered
           /\ sequence \in Nat /\ leased_sequence \in 0..sequence /\
                sequence' \in {sequence, sequence + 1}
           /\ UNCHANGED <<readerVars, clientVars, hostVars, request_after>>
           /\ request_after \in Nat /\ last_sequence \in 0..sequence
<1>1. /\ sequence \in Nat /\ leased_sequence \in 0..sequence /\ request_after \in Nat
      /\ last_sequence \in 0..sequence
  BY DEF TInv, Types, ServerTypes, ClientTypes
<1>2. /\ latest_slot' # NoSlot => slot_sequence'[latest_slot'] = sequence'
      /\ sequence' \in {sequence, sequence + 1}
      /\ UNCHANGED <<readerVars, clientVars, hostVars, request_after>>
  <2>1. CASE PublishEnd
    BY <2>1, EndFacts
  <2>2. CASE PollReply
    BY <2>2 DEF PollReply, EndPoll, slotVars, TInv, Newest
  <2>3. QED
    BY <2>1, <2>2
<1>3. PICK events : reply_if_ready(events)
  BY DEF PublishEnd, PollReply
<1>4. QED
  BY <1>1, <1>2, <1>3, Replied

LEMMA HeadHas == ASSUME up \in Seq(Message), up # <<>> PROVE Has(Head(up).op)
BY DEF Has

(* The frame received is the leased one, newer than the last. *)
LEMMA Taken ==
    ASSUME TInv, ReceiveFrame
    PROVE  /\ reader = "wait" /\ handle_state = "connected" /\ reader' = "copy" /\
                down' = Tail(down)
           /\ down # <<>> /\ Head(down) = down[1] /\ 1 \in 1..Len(down)
           /\ Head(down) \in [slot : Slot, seq : Nat]
           /\ last_sequence < Head(down).seq /\ Head(down).seq <= sequence
           /\ copy' = [slot |-> Head(down).slot, seq |-> Head(down).seq,
                       lo |-> slots[Head(down).slot].lo, hi |-> 0]
           /\ UNCHANGED <<serverVars, peer, clientVars, up, last_sequence, reading,
                          release_pending, frame>>
<1>1. Head(down) = down[1] /\ 1 \in 1..Len(down) /\ Head(down) \in [slot : Slot, seq : Nat]
  BY TailFacts DEF ReceiveFrame, TInv, Types, DownTypes
<1>2. reader = "wait" /\ handle_state = "connected"
  BY DEF ReceiveFrame, TInv, Places
<1>3. last_sequence < Head(down).seq /\ Head(down).seq <= sequence
  BY <1>1, <1>2 DEF TInv, Down
<1>4. ~Stale(Head(down))
  BY <1>1, <1>3 DEF Stale, TInv, Types, ClientTypes
<1>5. QED
  BY <1>1, <1>2, <1>3, <1>4 DEF ReceiveFrame, Unread

LEMMA ServerTypesStep == ASSUME TInv, [Next]_vars PROVE ServerTypes'
<1>1. CASE Client
  <2>1. CASE Connect \/ ConnectTimeout \/ Close \/ Tap \/ ReadFrame \/ ResendRelease \/
            SendRequest \/ ReadTimeout \/ ReadDisconnected \/ ReceiveFrame \/ CopyEnd \/
            ReturnFrame
    BY <2>1 DEF Connect, ConnectTimeout, Close, Tap, ReadFrame, ResendRelease,
       SendRequest, ReadTimeout, ReadDisconnected, ReceiveFrame, CopyEnd, ReturnFrame,
       slotVars, leaseVars, pollVars, readerVars, clientVars, hostVars, serverVars,
       Unread, vars, ServerTypes, TInv, Types
  <2>2. QED
    BY <1>1, <2>1 DEF Client
<1>2. CASE Server
  <2>1. CASE PublishBegin
    BY <2>1, BeginFacts DEF TInv, Types, ServerTypes
  <2>2. CASE PublishEnd
    <3>1. /\ sequence' \in 0..MaxFrames /\ sequence' = sequence + 1 /\ sequence \in 0..MaxFrames
          /\ writing \in Slot /\ slot_sequence'[writing] = sequence' /\ latest_slot' = writing
      BY <2>2, EndFacts DEF TInv, Types, ServerTypes
    <3>2. request_after' \in 0..sequence' /\ received' \in 0..MaxMessages
      BY <2>2, EndFacts DEF TInv, Types, ServerTypes
    <3>3. PICK events \in MayDefer : reply_if_ready(events)
      BY <2>2 DEF PublishEnd
    <3>4. /\ client' \in {"none", "open"} /\ leased_slot' \in Slot \cup {NoSlot}
          /\ leased_sequence' \in {0, leased_sequence, sequence'}
      BY <3>1, <3>3 DEF reply_if_ready, NoReply, ReplySent, ReplyBlocked, ReplyFailed,
         Answer, Leased, Hangup, leaseVars, TInv, Types, ServerTypes
    <3>5. leased_sequence' \in 0..sequence'
      BY <3>1, <3>4 DEF TInv, Types, ServerTypes
    <3>6. QED
      BY <2>2, EndFacts, <3>1, <3>2, <3>4, <3>5 DEF ServerTypes
  <2>3. CASE PollBegin
    BY <2>3, TransportAssumption DEF PollBegin, slotVars, TInv, Types, ServerTypes
  <2>4. CASE PollHangup
    BY <2>4 DEF PollHangup, Hangup, slotVars, pollVars, TInv, Types, ServerTypes
  <2>5. CASE PollReceive
    <3>1. received' \in 0..MaxMessages
      BY <2>5, Receives, TransportAssumption DEF TInv, Types, ServerTypes
    <3>2. leased_sequence' \in 0..sequence /\ request_after' \in 0..sequence
      BY <2>5, Receives DEF TInv, Types, ServerTypes
    <3>3. QED
      BY <2>5, Receives, <3>1, <3>2 DEF slotVars, TInv, Types, ServerTypes
  <2>6. CASE PollOverflow
    BY <2>6 DEF PollOverflow, Hangup, EndPoll, slotVars, TInv, Types, ServerTypes
  <2>7. CASE PollReply
    <3>1. PICK events : reply_if_ready(events)
      BY <2>7 DEF PollReply
    <3>2. /\ UNCHANGED <<latest_slot, writing, sequence, slot_sequence, request_after, received>>
          /\ mutex' = "free"
      BY <2>7 DEF PollReply, EndPoll, slotVars
    <3>3. /\ client' \in {"none", "open"} /\ leased_slot' \in Slot \cup {NoSlot}
          /\ leased_sequence' \in {0, leased_sequence, sequence}
      BY <3>1, <3>2 DEF reply_if_ready, NoReply, ReplySent, ReplyBlocked, ReplyFailed,
         Answer, LeaseDue, Leased, Hangup, leaseVars, TInv, Types, ServerTypes, Newest
    <3>4. leased_sequence' \in 0..sequence
      BY <3>3 DEF TInv, Types, ServerTypes
    <3>5. QED
      BY <3>2, <3>3, <3>4 DEF TInv, Types, ServerTypes
  <2>8. CASE Deliver
    BY <2>8 DEF Deliver, slotVars, leaseVars, ServerTypes, TInv, Types
  <2>9. QED
    BY <1>2, <2>1, <2>2, <2>3, <2>4, <2>5, <2>6, <2>7, <2>8 DEF Server
<1>3. CASE UNCHANGED vars
  BY <1>3 DEF slotVars, leaseVars, pollVars, vars, ServerTypes, TInv, Types
<1>4. QED
  BY <1>1, <1>2, <1>3 DEF Next

LEMMA FlagsStep == ASSUME TInv, [Next]_vars PROVE Flags'
<1>1. CASE Client
  <2>1. CASE Connect
    BY <2>1 DEF Connect, slotVars, leaseVars, pollVars, readerVars, clientVars,
       hostVars, serverVars, Unread, vars, TInv, Types, ServerTypes, SlotTypes, UpTypes,
       Message, DownTypes, EventTypes, ClientTypes, Flags
  <2>2. CASE ResendRelease
    BY <2>2 DEF ResendRelease, Send, Packet, Release, Room, Open, slotVars, leaseVars,
       pollVars, readerVars, clientVars, hostVars, serverVars, Unread, vars, TInv,
       Types, ServerTypes, SlotTypes, UpTypes, Message, DownTypes, EventTypes,
       ClientTypes, Flags
  <2>3. CASE SendRequest
    BY <2>3 DEF SendRequest, leaseVars, serverVars, Unread, TInv, DownTypes, EventTypes,
       ClientTypes, Flags
  <2>4. CASE CopyEnd
    BY <2>4 DEF CopyEnd, slotVars, leaseVars, pollVars, readerVars, clientVars,
       hostVars, serverVars, Unread, vars, TInv, Types, ServerTypes, SlotTypes, UpTypes,
       Message, DownTypes, EventTypes, ClientTypes, Flags
  <2>5. CASE ReturnFrame
    BY <2>5 DEF ReturnFrame, Send, Packet, Release, Room, Open, slotVars, leaseVars,
       pollVars, readerVars, clientVars, hostVars, serverVars, Unread, vars, TInv,
       Types, ServerTypes, SlotTypes, UpTypes, Message, DownTypes, EventTypes,
       ClientTypes, Flags
  <2>6. CASE ConnectTimeout \/ Close \/ Tap \/ ReadFrame \/ ReadTimeout \/
            ReadDisconnected \/ ReceiveFrame
    BY <2>6 DEF ConnectTimeout, Close, Tap, ReadFrame, ReadTimeout, ReadDisconnected,
       ReceiveFrame, leaseVars, readerVars, serverVars, Unread, vars, Flags, TInv
  <2>7. QED
    BY <1>1, <2>1, <2>2, <2>3, <2>4, <2>5, <2>6 DEF Client
<1>2. CASE Server
  <2>1. CASE PublishEnd
    <3>1. PICK events \in MayDefer : reply_if_ready(events) /\ deferred' = events
      BY <2>1 DEF PublishEnd
    <3>2. CASE NoReply(events)
      BY <2>1, <3>1, <3>2, EndFacts DEF NoReply, leaseVars, readerVars, TInv, Flags
    <3>3. CASE ReplySent(events)
      BY <2>1, <3>1, <3>3, EndFacts DEF ReplySent, Answer, LeaseDue, Leased, slotVars,
         leaseVars, pollVars, readerVars, clientVars, hostVars, serverVars, Unread,
         vars, TInv, Types, ServerTypes, SlotTypes, UpTypes, Message, DownTypes,
         EventTypes, ClientTypes, Flags
    <3>4. CASE ReplyBlocked(events)
      BY <2>1, <3>1, <3>4, EndFacts DEF ReplyBlocked, Answer, LeaseDue, Leased,
         slotVars, leaseVars, pollVars, readerVars, clientVars, hostVars, serverVars,
         Unread, vars, TInv, Types, ServerTypes, SlotTypes, UpTypes, Message, DownTypes,
         EventTypes, ClientTypes, Flags
    <3>5. CASE ReplyFailed(events)
      BY <2>1, <3>1, <3>5, EndFacts DEF ReplyFailed, Hangup, Failure, slotVars,
         leaseVars, pollVars, readerVars, clientVars, hostVars, serverVars, Unread,
         vars, TInv, Types, ServerTypes, SlotTypes, UpTypes, Message, DownTypes,
         EventTypes, ClientTypes, Flags
    <3>6. QED
      BY <3>1, <3>2, <3>3, <3>4, <3>5 DEF reply_if_ready
  <2>2. CASE PollHangup
    BY <2>2 DEF PollHangup, Draining, Hangup, Failure, slotVars, leaseVars, pollVars,
       readerVars, clientVars, hostVars, serverVars, Unread, vars, TInv, Types,
       ServerTypes, SlotTypes, UpTypes, Message, DownTypes, EventTypes, ClientTypes,
       Flags
  <2>3. CASE PollReceive
    BY <2>3, Receives DEF PollReceive, slotVars, leaseVars, pollVars, readerVars,
       clientVars, hostVars, serverVars, Unread, vars, TInv, Types, ServerTypes,
       SlotTypes, UpTypes, Message, DownTypes, EventTypes, ClientTypes, Flags
  <2>4. CASE PollOverflow
    BY <2>4 DEF PollOverflow, Drained, Overflowing, Hangup, EndPoll, Failure, slotVars,
       leaseVars, pollVars, readerVars, clientVars, hostVars, serverVars, Unread, vars,
       TInv, Types, ServerTypes, SlotTypes, UpTypes, Message, DownTypes, EventTypes,
       ClientTypes, Flags
  <2>5. CASE PollReply
    <3>1. PICK events \in MayDefer : reply_if_ready(events) /\ EndPoll(events)
      BY <2>5 DEF PollReply
    <3>2. CASE NoReply(events)
      BY <2>5, <3>1, <3>2 DEF EndPoll, NoReply, leaseVars, readerVars, TInv, Message,
         DownTypes, EventTypes, ClientTypes, Flags
    <3>3. CASE ReplySent(events)
      BY <2>5, <3>1, <3>3 DEF PollReply, Drained, Overflowing, EndPoll, ReplySent,
         Answer, LeaseDue, Leased, slotVars, leaseVars, pollVars, readerVars,
         clientVars, hostVars, serverVars, Unread, vars, TInv, Types, ServerTypes,
         SlotTypes, UpTypes, Message, DownTypes, EventTypes, ClientTypes, Flags
    <3>4. CASE ReplyBlocked(events)
      BY <2>5, <3>1, <3>4 DEF PollReply, Drained, Overflowing, EndPoll, ReplyBlocked,
         Answer, LeaseDue, Leased, slotVars, leaseVars, pollVars, readerVars,
         clientVars, hostVars, serverVars, Unread, vars, TInv, Types, ServerTypes,
         SlotTypes, UpTypes, Message, DownTypes, EventTypes, ClientTypes, Flags
    <3>5. CASE ReplyFailed(events)
      BY <2>5, <3>1, <3>5 DEF PollReply, Drained, Overflowing, EndPoll, ReplyFailed,
         Hangup, Failure, slotVars, leaseVars, pollVars, readerVars, clientVars,
         hostVars, serverVars, Unread, vars, TInv, Types, ServerTypes, SlotTypes,
         UpTypes, Message, DownTypes, EventTypes, ClientTypes, Flags
    <3>6. QED
      BY <3>1, <3>2, <3>3, <3>4, <3>5 DEF reply_if_ready
  <2>6. CASE PublishBegin \/ PollBegin \/ Deliver
    BY <2>6 DEF PublishBegin, PollBegin, Deliver, leaseVars, readerVars, Flags, TInv
  <2>7. QED
    BY <1>2, <2>1, <2>2, <2>3, <2>4, <2>5, <2>6 DEF Server
<1>3. CASE UNCHANGED vars
  BY <1>3 DEF leaseVars, readerVars, vars, Flags, TInv
<1>4. QED
  BY <1>1, <1>2, <1>3 DEF Next

LEMMA SlotTypesStep == ASSUME TInv, [Next]_vars PROVE SlotTypes'
<1>1. CASE Client
  <2>1. CASE Connect \/ ConnectTimeout \/ Close \/ Tap \/ ReadFrame \/ ResendRelease \/
            SendRequest \/ ReadTimeout \/ ReadDisconnected \/ ReceiveFrame \/ CopyEnd \/
            ReturnFrame
    BY <2>1 DEF Connect, ConnectTimeout, Close, Tap, ReadFrame, ResendRelease,
       SendRequest, ReadTimeout, ReadDisconnected, ReceiveFrame, CopyEnd, ReturnFrame,
       slotVars, pollVars, readerVars, clientVars, hostVars, serverVars, Unread, vars,
       SlotTypes, TInv, Types
  <2>2. QED
    BY <1>1, <2>1 DEF Client
<1>2. CASE Server
  <2>1. CASE PublishBegin
    BY <2>1, BeginFacts, TransportAssumption DEF slotVars, leaseVars, pollVars,
       readerVars, clientVars, hostVars, serverVars, Unread, vars, TInv, Types,
       ServerTypes, SlotTypes, UpTypes, Message, DownTypes, EventTypes, ClientTypes,
       Filling
  <2>2. CASE PublishEnd
    <3>1. PICK events \in MayDefer : reply_if_ready(events) /\ deferred' = events
      BY <2>2 DEF PublishEnd
    <3>2. CASE NoReply(events)
      BY <2>2, <3>1, <3>2, EndFacts, TransportAssumption DEF NoReply, LeaseDue,
         slotVars, leaseVars, pollVars, readerVars, clientVars, hostVars, serverVars,
         Unread, vars, TInv, Types, ServerTypes, SlotTypes, UpTypes, Message, DownTypes,
         EventTypes, ClientTypes, Filling
    <3>3. CASE ReplySent(events)
      BY <2>2, <3>1, <3>3, EndFacts, TransportAssumption DEF ReplySent, Answer,
         LeaseDue, Leased, slotVars, leaseVars, pollVars, readerVars, clientVars,
         hostVars, serverVars, Unread, vars, TInv, Types, ServerTypes, SlotTypes,
         UpTypes, Message, DownTypes, EventTypes, ClientTypes, Filling
    <3>4. CASE ReplyBlocked(events)
      BY <2>2, <3>1, <3>4, EndFacts, TransportAssumption DEF ReplyBlocked, Answer,
         LeaseDue, Leased, slotVars, leaseVars, pollVars, readerVars, clientVars,
         hostVars, serverVars, Unread, vars, TInv, Types, ServerTypes, SlotTypes,
         UpTypes, Message, DownTypes, EventTypes, ClientTypes, Filling
    <3>5. CASE ReplyFailed(events)
      BY <2>2, <3>1, <3>5, EndFacts, TransportAssumption DEF ReplyFailed, Hangup,
         Failure, slotVars, leaseVars, pollVars, readerVars, clientVars, hostVars,
         serverVars, Unread, vars, TInv, Types, ServerTypes, SlotTypes, UpTypes,
         Message, DownTypes, EventTypes, ClientTypes, Filling
    <3>6. QED
      BY <3>1, <3>2, <3>3, <3>4, <3>5 DEF reply_if_ready
  <2>3. CASE PollBegin \/ PollHangup \/ PollReceive \/ PollOverflow \/ PollReply \/
            Deliver
    BY <2>3, Receives DEF PollBegin, PollHangup, PollOverflow, PollReply, Deliver,
       EndPoll, slotVars, vars, SlotTypes, TInv, Types
  <2>4. QED
    BY <1>2, <2>1, <2>2, <2>3 DEF Server
<1>3. CASE UNCHANGED vars
  BY <1>3 DEF slotVars, vars, SlotTypes, TInv, Types
<1>4. QED
  BY <1>1, <1>2, <1>3 DEF Next

LEMMA UpTypesStep == ASSUME TInv, [Next]_vars PROVE UpTypes'
<1>1. CASE Client
  <2>1. CASE Tap
    BY <2>1, Packets, Sends DEF Tap, TInv, Types
  <2>2. CASE ResendRelease
    BY <2>2, Packets, Sends DEF ResendRelease, TInv, Types
  <2>3. CASE SendRequest
    BY <2>3, Packets, Sends DEF SendRequest, TInv, Types
  <2>4. CASE ReturnFrame
    <3>1. CASE Send(Release)
      BY <3>1, Packets, Sends DEF TInv, Types
    <3>2. CASE up' = up
      BY <3>2 DEF TInv, Types, UpTypes
    <3>3. QED
      BY <2>4, <3>1, <3>2 DEF ReturnFrame
  <2>5. CASE Connect \/ ConnectTimeout \/ Close \/ ReadFrame \/ ReadTimeout \/
            ReadDisconnected \/ ReceiveFrame \/ CopyEnd
    BY <2>5 DEF Connect, ConnectTimeout, Close, ReadFrame, ReadTimeout,
       ReadDisconnected, ReceiveFrame, CopyEnd, UpTypes, TInv, Types
  <2>6. QED
    BY <1>1, <2>1, <2>2, <2>3, <2>4, <2>5 DEF Client
<1>2. CASE Server
  <2>1. CASE PublishEnd
    <3>1. PICK events : reply_if_ready(events)
      BY <2>1 DEF PublishEnd
    <3>2. up' = up \/ up' = <<>>
      BY <3>1 DEF reply_if_ready, NoReply, ReplySent, ReplyBlocked, ReplyFailed, Answer,
         Hangup
    <3>3. QED
      BY <3>2, EmptyUp DEF TInv, Types, UpTypes
  <2>2. CASE PollBegin
    BY <2>2, EmptyUp DEF PollBegin, TInv, Types, UpTypes
  <2>3. CASE PollHangup
    BY <2>3, EmptyUp DEF PollHangup, Hangup
  <2>4. CASE PollReceive
    BY <2>4, Receives, TailUp DEF TInv, Types
  <2>5. CASE PollOverflow
    BY <2>5, EmptyUp DEF PollOverflow, Hangup
  <2>6. CASE PollReply
    <3>1. PICK events : reply_if_ready(events)
      BY <2>6 DEF PollReply
    <3>2. up' = up \/ up' = <<>>
      BY <3>1 DEF reply_if_ready, NoReply, ReplySent, ReplyBlocked, ReplyFailed, Answer,
         Hangup
    <3>3. QED
      BY <3>2, EmptyUp DEF TInv, Types, UpTypes
  <2>7. CASE PublishBegin \/ Deliver
    BY <2>7 DEF PublishBegin, Deliver, UpTypes, TInv, Types
  <2>8. QED
    BY <1>2, <2>1, <2>2, <2>3, <2>4, <2>5, <2>6, <2>7 DEF Server
<1>3. CASE UNCHANGED vars
  BY <1>3 DEF vars, UpTypes, TInv, Types
<1>4. QED
  BY <1>1, <1>2, <1>3 DEF Next

LEMMA DownTypesStep == ASSUME TInv, [Next]_vars PROVE DownTypes'
<1>1. CASE Client
  <2>1. CASE Close
    BY <2>1 DEF Close, DownTypes
  <2>2. CASE ReceiveFrame
    BY <2>2 DEF ReceiveFrame, TInv, Types, DownTypes
  <2>3. CASE Connect \/ ConnectTimeout \/ Tap \/ ReadFrame \/ ResendRelease \/
            SendRequest \/ ReadTimeout \/ ReadDisconnected \/ CopyEnd \/ ReturnFrame
    BY <2>3 DEF Connect, ConnectTimeout, Tap, ReadFrame, ResendRelease, SendRequest,
       ReadTimeout, ReadDisconnected, CopyEnd, ReturnFrame, hostVars, serverVars,
       Unread, vars, DownTypes, TInv, Types
  <2>4. QED
    BY <1>1, <2>1, <2>2, <2>3 DEF Client
<1>2. CASE Server
  <2>1. CASE PublishEnd
    <3>1. PICK events : reply_if_ready(events)
      BY <2>1 DEF PublishEnd
    <3>2. CASE down' = down
      BY <3>2 DEF TInv, Types, DownTypes
    <3>3. CASE ReplySent(events)
      <4>1. leased_slot' \in Slot /\ leased_sequence' \in Nat
        BY <2>1, <3>3, ServerTypesStep, EndFacts DEF ReplySent, Answer, Leased,
           ServerTypes, TInv, PendingFits
      <4>2. [slot |-> leased_slot', seq |-> leased_sequence'] \in [slot : Slot, seq : Nat]
        BY <4>1
      <4>3. QED
        BY <3>3, <4>2, AppendFacts DEF ReplySent, TInv, Types, DownTypes
    <3>4. QED
      BY <3>1, <3>2, <3>3 DEF reply_if_ready, NoReply, ReplyBlocked, ReplyFailed
  <2>2. CASE PollBegin
    <3>1. down' = down \/ down' = <<>>
      BY <2>2 DEF PollBegin
    <3>2. <<>> \in Seq([slot : Slot, seq : Nat])
      OBVIOUS
    <3>3. QED
      BY <3>1, <3>2 DEF TInv, Types, DownTypes
  <2>3. CASE PollReply
    <3>1. PICK events : reply_if_ready(events)
      BY <2>3 DEF PollReply
    <3>2. CASE down' = down
      BY <3>2 DEF TInv, Types, DownTypes
    <3>3. CASE ReplySent(events)
      <4>1. leased_slot' \in Slot /\ leased_sequence' \in Nat
        BY <3>3, ServerTypesStep DEF ReplySent, Answer, LeaseDue, Leased, ServerTypes,
           TInv, PendingFits
      <4>2. [slot |-> leased_slot', seq |-> leased_sequence'] \in [slot : Slot, seq : Nat]
        BY <4>1
      <4>3. QED
        BY <3>3, <4>2, AppendFacts DEF ReplySent, TInv, Types, DownTypes
    <3>4. QED
      BY <3>1, <3>2, <3>3 DEF reply_if_ready, NoReply, ReplyBlocked, ReplyFailed
  <2>4. CASE PublishBegin \/ PollHangup \/ PollReceive \/ PollOverflow \/ Deliver
    BY <2>4, Receives DEF PublishBegin, PollHangup, PollOverflow, Deliver, DownTypes,
       TInv, Types
  <2>5. QED
    BY <1>2, <2>1, <2>2, <2>3, <2>4 DEF Server
<1>3. CASE UNCHANGED vars
  BY <1>3 DEF vars, DownTypes, TInv, Types
<1>4. QED
  BY <1>1, <1>2, <1>3 DEF Next

LEMMA EventTypesStep == ASSUME TInv, [Next]_vars PROVE EventTypes'
<1>1. CASE Client
  <2>1. CASE Connect \/ ConnectTimeout \/ Close \/ Tap \/ ReadFrame \/ ResendRelease \/
            SendRequest \/ ReadTimeout \/ ReadDisconnected \/ ReceiveFrame \/ CopyEnd \/
            ReturnFrame
    BY <2>1 DEF Connect, ConnectTimeout, Close, Tap, ReadFrame, ResendRelease,
       SendRequest, ReadTimeout, ReadDisconnected, ReceiveFrame, CopyEnd, ReturnFrame,
       pollVars, readerVars, clientVars, hostVars, serverVars, Unread, vars, EventTypes,
       TInv, Types
  <2>2. QED
    BY <1>1, <2>1 DEF Client
<1>2. CASE Server
  <2>1. CASE PublishEnd
    <3>1. deferred' \in MayDefer
      BY <2>1 DEF PublishEnd
    <3>2. deferred' \in Seq(Event)
      BY <3>1, Events, Defers DEF MayDefer, TInv, Types, EventTypes
    <3>3. QED
      BY <2>1, <3>2, EndFacts DEF hostVars, TInv, Types, EventTypes
  <2>2. CASE PollHangup
    <3>1. deferred' = Append(deferred, Failure("Disconnect")) /\ UNCHANGED <<hostVars, delivery>>
      BY <2>2 DEF PollHangup, pollVars
    <3>2. deferred' \in Seq(Event)
      BY <3>1, Events DEF TInv, Types, EventTypes
    <3>3. QED
      BY <3>1, <3>2 DEF hostVars, TInv, Types, EventTypes
  <2>3. CASE PollReceive
    <3>1. Head(up) \in Message
      BY <2>3, Receives DEF TInv, Types, UpTypes
    <3>2. deferred' = deferred \/ deferred' = Append(deferred, TapEvent(Head(up).seq))
      BY <2>3, Receives
    <3>3. deferred' \in Seq(Event)
      BY <3>1, <3>2, Events, Defers DEF Message, TInv, Types, EventTypes
    <3>4. QED
      BY <2>3, <3>3, Receives DEF hostVars, TInv, Types, EventTypes
  <2>4. CASE PollOverflow
    <3>1. deferred' = <<>> /\ delivery' = Append(deferred, Failure("Overflow")) /\
            UNCHANGED hostVars
      BY <2>4 DEF PollOverflow, EndPoll
    <3>2. delivery' \in Seq(Event)
      BY <3>1, Events DEF TInv, Types, EventTypes
    <3>3. QED
      BY <3>1, <3>2 DEF hostVars, TInv, Types, EventTypes
  <2>5. CASE PollReply
    <3>1. deferred' = <<>> /\ delivery' \in MayDefer /\ UNCHANGED hostVars
      BY <2>5 DEF PollReply, EndPoll
    <3>2. delivery' \in Seq(Event)
      BY <3>1, Events, Defers DEF MayDefer, TInv, Types, EventTypes
    <3>3. QED
      BY <3>1, <3>2 DEF hostVars, TInv, Types, EventTypes
  <2>6. CASE Deliver
    <3>1. /\ delivery # <<>> /\ delivery' = Tail(delivery) /\ deferred' = deferred
          /\ \/ /\ Head(delivery).kind = "Tap" /\ failures' = failures
                /\ delivered' = Append(delivered, Head(delivery).tap)
             \/ /\ Head(delivery).kind # "Tap" /\ delivered' = delivered
                /\ failures' = failures \cup {Head(delivery).kind}
      BY <2>6 DEF Deliver
    <3>2. Head(delivery) \in Event /\ delivery' \in Seq(Event)
      BY <3>1 DEF TInv, Types, EventTypes
    <3>3. delivered' \in Seq(Nat)
      <4>1. Head(delivery).tap \in Nat /\ delivered \in Seq(Nat)
        BY <3>2 DEF TInv, Types, EventTypes, Event
      <4>2. Append(delivered, Head(delivery).tap) \in Seq(Nat)
        BY <4>1
      <4>3. QED
        BY <3>1, <4>1, <4>2
    <3>4. failures' \subseteq {"Disconnect", "Overflow", "ProtocolError"}
      BY <3>1, <3>2 DEF TInv, Types, EventTypes, Event
    <3>5. QED
      BY <3>1, <3>2, <3>3, <3>4 DEF TInv, Types, EventTypes
  <2>7. CASE PublishBegin \/ PollBegin
    BY <2>7 DEF PublishBegin, PollBegin, pollVars, hostVars, EventTypes, TInv, Types
  <2>8. QED
    BY <1>2, <2>1, <2>2, <2>3, <2>4, <2>5, <2>6, <2>7 DEF Server
<1>3. CASE UNCHANGED vars
  BY <1>3 DEF pollVars, hostVars, vars, EventTypes, TInv, Types
<1>4. QED
  BY <1>1, <1>2, <1>3 DEF Next

LEMMA ClientTypesStep == ASSUME TInv, [Next]_vars PROVE ClientTypes'
<1>1. CASE Client
  <2>1. CASE Connect
    <3>1. NoCopy \in Image /\ 0 \in 0..sequence
      BY DEF NoCopy, Image, Slot, TInv, Types, ServerTypes
    <3>2. UNCHANGED <<sequence, peer, sent>>
      BY <2>1 DEF Connect, serverVars, slotVars
    <3>3. QED
      BY <2>1, <3>1, <3>2 DEF Connect, NoCopy, TInv, Types, ClientTypes
  <2>2. CASE ConnectTimeout
    BY <2>2, TailFacts DEF ConnectTimeout, slotVars, readerVars, serverVars, TInv,
       Types, ClientTypes
  <2>3. CASE Close
    BY <2>3, TailFacts DEF Close, slotVars, readerVars, serverVars, TInv, Types,
       ClientTypes
  <2>4. CASE Tap
    BY <2>4, TailFacts DEF Tap, slotVars, readerVars, serverVars, TInv, Types,
       DownTypes, EventTypes, ClientTypes
  <2>5. CASE ReadFrame
    BY <2>5, TailFacts DEF ReadFrame, slotVars, clientVars, serverVars, Unread, TInv,
       Types, ClientTypes
  <2>6. CASE ResendRelease
    BY <2>6, TailFacts DEF ResendRelease, slotVars, clientVars, serverVars, Unread,
       TInv, Types, Message, DownTypes, EventTypes, ClientTypes
  <2>7. CASE SendRequest
    BY <2>7, TailFacts DEF SendRequest, slotVars, clientVars, serverVars, Unread, TInv,
       Types, DownTypes, EventTypes, ClientTypes
  <2>8. CASE ReadTimeout
    BY <2>8, TailFacts DEF ReadTimeout, slotVars, clientVars, serverVars, Unread, TInv,
       Types, ClientTypes
  <2>9. CASE ReadDisconnected
    BY <2>9, TailFacts DEF ReadDisconnected, slotVars, clientVars, serverVars, Unread,
       TInv, Types, ClientTypes
  <2>10. CASE ReceiveFrame
    <3>1. Head(down) = down[1] /\ 1 \in 1..Len(down) /\ Head(down) \in [slot : Slot, seq : Nat]
      BY <2>10, TailFacts DEF ReceiveFrame, TInv, Types, DownTypes
    <3>2. reader = "wait" /\ handle_state = "connected"
      BY <2>10 DEF ReceiveFrame, TInv, Places
    <3>3. last_sequence < Head(down).seq /\ Head(down).seq <= sequence
      BY <3>1, <3>2 DEF TInv, Down
    <3>4. /\ reader' = "copy"
          /\ copy' = [slot |-> Head(down).slot, seq |-> Head(down).seq,
                      lo |-> slots[Head(down).slot].lo, hi |-> 0]
      BY <2>10, <3>1, <3>3 DEF ReceiveFrame, Stale, TInv, Types, ClientTypes
    <3>5. slots[Head(down).slot].lo \in Nat
      BY <3>1 DEF TInv, Types, SlotTypes
    <3>6. copy' \in Image /\ copy'.seq \in 0..sequence
      BY <3>1, <3>3, <3>4, <3>5 DEF Image
    <3>7. UNCHANGED <<sequence, peer, handle_state, last_sequence, frame, connections, sent>>
      BY <2>10 DEF ReceiveFrame, Unread, serverVars, slotVars, clientVars
    <3>8. QED
      BY <3>4, <3>6, <3>7 DEF TInv, Types, ClientTypes
  <2>11. CASE CopyEnd
    <3>1. copy \in Image /\ copy.seq \in 0..sequence /\ slots[copy.slot].hi \in Nat
      BY DEF TInv, Types, ClientTypes, SlotTypes, Image
    <3>2. copy' = [copy EXCEPT !.hi = slots[copy.slot].hi]
      BY <2>11 DEF CopyEnd
    <3>3. copy' \in Image /\ copy'.seq = copy.seq
      BY <3>1, <3>2 DEF Image
    <3>4. /\ last_sequence' = copy.seq /\ reader' = "copied"
          /\ UNCHANGED <<sequence, peer, handle_state, frame, connections, sent>>
      BY <2>11 DEF CopyEnd, Unread, serverVars, slotVars, clientVars
    <3>5. QED
      BY <3>1, <3>3, <3>4 DEF TInv, Types, ClientTypes
  <2>12. CASE ReturnFrame
    BY <2>12, TailFacts DEF ReturnFrame, slotVars, clientVars, serverVars, Unread, TInv,
       Types, Message, DownTypes, EventTypes, ClientTypes
  <2>13. QED
    BY <1>1, <2>1, <2>2, <2>3, <2>4, <2>5, <2>6, <2>7, <2>8, <2>9, <2>10, <2>11, <2>12
       DEF Client
<1>2. CASE Server
  <2>1. CASE PublishEnd
    <3>1. sequence' = sequence + 1 /\ sequence \in Nat
      BY <2>1, EndFacts DEF TInv, Types, ServerTypes
    <3>2. last_sequence' \in 0..sequence' /\ copy'.seq \in 0..sequence'
      BY <2>1, EndFacts, <3>1 DEF readerVars, TInv, Types, ClientTypes
    <3>3. QED
      BY <2>1, EndFacts, <3>2 DEF readerVars, clientVars, TInv, Types, ClientTypes
  <2>2. CASE PollBegin
    BY <2>2, TailFacts DEF PollBegin, slotVars, leaseVars, pollVars, readerVars,
       clientVars, hostVars, serverVars, Unread, vars, TInv, Types, ServerTypes,
       SlotTypes, UpTypes, Message, DownTypes, EventTypes, ClientTypes
  <2>3. CASE PollReply
    <3>1. PICK events \in MayDefer : reply_if_ready(events) /\ EndPoll(events)
      BY <2>3 DEF PollReply
    <3>2. CASE NoReply(events)
      BY <2>3, <3>1, <3>2, TailFacts DEF PollReply, EndPoll, slotVars, readerVars,
         clientVars, TInv, Types, Message, DownTypes, EventTypes, ClientTypes
    <3>3. CASE ReplySent(events)
      BY <2>3, <3>1, <3>3, TailFacts DEF PollReply, EndPoll, slotVars, readerVars,
         clientVars, TInv, Types, SlotTypes, UpTypes, Message, DownTypes, EventTypes,
         ClientTypes
    <3>4. CASE ReplyBlocked(events)
      BY <2>3, <3>1, <3>4, TailFacts DEF PollReply, EndPoll, slotVars, readerVars,
         clientVars, TInv, Types, SlotTypes, UpTypes, Message, DownTypes, EventTypes,
         ClientTypes
    <3>5. CASE ReplyFailed(events)
      BY <2>3, <3>1, <3>5, TailFacts DEF PollReply, EndPoll, slotVars, readerVars,
         clientVars, TInv, Types, UpTypes, Message, DownTypes, EventTypes, ClientTypes
    <3>6. QED
      BY <3>1, <3>2, <3>3, <3>4, <3>5 DEF reply_if_ready
  <2>4. CASE PublishBegin \/ PollHangup \/ PollReceive \/ PollOverflow \/ Deliver
    BY <2>4, Receives DEF PublishBegin, PollHangup, PollOverflow, Deliver, EndPoll,
       slotVars, readerVars, clientVars, ClientTypes, TInv, Types
  <2>5. QED
    BY <1>2, <2>1, <2>2, <2>3, <2>4 DEF Server
<1>3. CASE UNCHANGED vars
  BY <1>3 DEF slotVars, readerVars, clientVars, vars, ClientTypes, TInv, Types
<1>4. QED
  BY <1>1, <1>2, <1>3 DEF Next

LEMMA FillingStep == ASSUME TInv, [Next]_vars PROVE Filling'
<1>1. CASE Client
  <2>1. CASE Connect \/ ConnectTimeout \/ Close \/ Tap \/ ReadFrame \/ ResendRelease \/
            SendRequest \/ ReadTimeout \/ ReadDisconnected \/ ReceiveFrame \/ CopyEnd \/
            ReturnFrame
    BY <2>1 DEF Connect, ConnectTimeout, Close, Tap, ReadFrame, ResendRelease,
       SendRequest, ReadTimeout, ReadDisconnected, ReceiveFrame, CopyEnd, ReturnFrame,
       slotVars, leaseVars, pollVars, readerVars, clientVars, hostVars, serverVars,
       Unread, vars, Filling, TInv
  <2>2. QED
    BY <1>1, <2>1 DEF Client
<1>2. CASE Server
  <2>1. CASE PublishBegin
    BY <2>1, BeginFacts DEF slotVars, pollVars, Filling
  <2>2. CASE PublishEnd
    <3>1. PICK events \in MayDefer : reply_if_ready(events) /\ deferred' = events
      BY <2>2 DEF PublishEnd
    <3>2. CASE NoReply(events)
      BY <2>2, <3>1, <3>2, EndFacts DEF Filling
    <3>3. CASE ReplySent(events)
      BY <2>2, <3>1, <3>3, EndFacts DEF EventTypes, ClientTypes, Filling
    <3>4. CASE ReplyBlocked(events)
      BY <2>2, <3>1, <3>4, EndFacts DEF EventTypes, ClientTypes, Filling
    <3>5. CASE ReplyFailed(events)
      BY <2>2, <3>1, <3>5, EndFacts DEF ClientTypes, Filling
    <3>6. QED
      BY <3>1, <3>2, <3>3, <3>4, <3>5 DEF reply_if_ready
  <2>3. CASE PollBegin
    BY <2>3 DEF PollBegin, slotVars, TInv, Filling
  <2>4. CASE PollHangup
    BY <2>4 DEF PollHangup, Hangup, slotVars, TInv, EventTypes, ClientTypes, Filling
  <2>5. CASE PollReceive
    BY <2>5, Receives DEF slotVars, pollVars, TInv, Filling
  <2>6. CASE PollOverflow
    BY <2>6 DEF PollOverflow, Drained, EndPoll, slotVars, TInv, Message, DownTypes,
       EventTypes, ClientTypes, Filling
  <2>7. CASE PollReply
    <3>1. PICK events \in MayDefer : reply_if_ready(events) /\ EndPoll(events)
      BY <2>7 DEF PollReply
    <3>2. CASE NoReply(events)
      BY <2>7, <3>1, <3>2 DEF PollReply, Drained, EndPoll, slotVars, TInv, Message,
         DownTypes, EventTypes, ClientTypes, Filling
    <3>3. CASE ReplySent(events)
      BY <2>7, <3>1, <3>3 DEF PollReply, Drained, EndPoll, slotVars, TInv, SlotTypes,
         UpTypes, Message, DownTypes, EventTypes, ClientTypes, Filling
    <3>4. CASE ReplyBlocked(events)
      BY <2>7, <3>1, <3>4 DEF PollReply, Drained, EndPoll, slotVars, TInv, SlotTypes,
         UpTypes, Message, DownTypes, EventTypes, ClientTypes, Filling
    <3>5. CASE ReplyFailed(events)
      BY <2>7, <3>1, <3>5 DEF PollReply, Drained, EndPoll, slotVars, TInv, UpTypes,
         Message, DownTypes, EventTypes, ClientTypes, Filling
    <3>6. QED
      BY <3>1, <3>2, <3>3, <3>4, <3>5 DEF reply_if_ready
  <2>8. CASE Deliver
    BY <2>8 DEF Deliver, slotVars, leaseVars, Filling, TInv
  <2>9. QED
    BY <1>2, <2>1, <2>2, <2>3, <2>4, <2>5, <2>6, <2>7, <2>8 DEF Server
<1>3. CASE UNCHANGED vars
  BY <1>3 DEF slotVars, leaseVars, vars, Filling, TInv
<1>4. QED
  BY <1>1, <1>2, <1>3 DEF Next

LEMMA WholeStep == ASSUME TInv, [Next]_vars PROVE Whole'
<1>1. CASE Client
  <2>1. CASE Connect \/ ConnectTimeout \/ Close \/ Tap \/ ReadFrame \/ ResendRelease \/
            SendRequest \/ ReadTimeout \/ ReadDisconnected \/ ReceiveFrame \/ CopyEnd \/
            ReturnFrame
    BY <2>1 DEF Connect, ConnectTimeout, Close, Tap, ReadFrame, ResendRelease,
       SendRequest, ReadTimeout, ReadDisconnected, ReceiveFrame, CopyEnd, ReturnFrame,
       slotVars, pollVars, readerVars, clientVars, hostVars, serverVars, Unread, vars,
       Whole, TInv
  <2>2. QED
    BY <1>1, <2>1 DEF Client
<1>2. CASE Server
  <2>1. CASE PublishBegin
    BY <2>1, BeginFacts DEF TInv, Whole, NoSlot, Slot
  <2>2. CASE PublishEnd
    <3>1. PICK events \in MayDefer : reply_if_ready(events) /\ deferred' = events
      BY <2>2 DEF PublishEnd
    <3>2. CASE NoReply(events)
      BY <2>2, <3>1, <3>2, EndFacts DEF NoReply, LeaseDue, slotVars, leaseVars,
         pollVars, readerVars, clientVars, hostVars, serverVars, Unread, vars, TInv,
         Types, ServerTypes, SlotTypes, UpTypes, Message, DownTypes, EventTypes,
         ClientTypes, Filling, Whole
    <3>3. CASE ReplySent(events)
      BY <2>2, <3>1, <3>3, EndFacts DEF ReplySent, Answer, LeaseDue, Leased, slotVars,
         leaseVars, pollVars, readerVars, clientVars, hostVars, serverVars, Unread,
         vars, TInv, Types, ServerTypes, SlotTypes, UpTypes, Message, DownTypes,
         EventTypes, ClientTypes, Filling, Whole
    <3>4. CASE ReplyBlocked(events)
      BY <2>2, <3>1, <3>4, EndFacts DEF ReplyBlocked, Answer, LeaseDue, Leased,
         slotVars, leaseVars, pollVars, readerVars, clientVars, hostVars, serverVars,
         Unread, vars, TInv, Types, ServerTypes, SlotTypes, UpTypes, Message, DownTypes,
         EventTypes, ClientTypes, Filling, Whole
    <3>5. CASE ReplyFailed(events)
      BY <2>2, <3>1, <3>5, EndFacts DEF ReplyFailed, Hangup, Failure, slotVars,
         leaseVars, pollVars, readerVars, clientVars, hostVars, serverVars, Unread,
         vars, TInv, Types, ServerTypes, SlotTypes, UpTypes, Message, DownTypes,
         EventTypes, ClientTypes, Filling, Whole
    <3>6. QED
      BY <3>1, <3>2, <3>3, <3>4, <3>5 DEF reply_if_ready
  <2>3. CASE PollBegin \/ PollHangup \/ PollReceive \/ PollOverflow \/ PollReply \/
            Deliver
    BY <2>3, Receives DEF PollBegin, PollHangup, PollOverflow, PollReply, Deliver,
       EndPoll, slotVars, vars, Whole, TInv
  <2>4. QED
    BY <1>2, <2>1, <2>2, <2>3 DEF Server
<1>3. CASE UNCHANGED vars
  BY <1>3 DEF slotVars, vars, Whole, TInv
<1>4. QED
  BY <1>1, <1>2, <1>3 DEF Next

LEMMA NewestStep == ASSUME TInv, [Next]_vars PROVE Newest'
<1>1. CASE Client
  <2>1. CASE Connect \/ ConnectTimeout \/ Close \/ Tap \/ ReadFrame \/ ResendRelease \/
            SendRequest \/ ReadTimeout \/ ReadDisconnected \/ ReceiveFrame \/ CopyEnd \/
            ReturnFrame
    BY <2>1 DEF Connect, ConnectTimeout, Close, Tap, ReadFrame, ResendRelease,
       SendRequest, ReadTimeout, ReadDisconnected, ReceiveFrame, CopyEnd, ReturnFrame,
       slotVars, pollVars, readerVars, clientVars, hostVars, serverVars, Unread, vars,
       Newest, TInv
  <2>2. QED
    BY <1>1, <2>1 DEF Client
<1>2. CASE Server
  <2>1. CASE PublishEnd
    <3>1. PICK events \in MayDefer : reply_if_ready(events) /\ deferred' = events
      BY <2>1 DEF PublishEnd
    <3>2. CASE NoReply(events)
      BY <2>1, <3>1, <3>2, EndFacts DEF Filling, Newest
    <3>3. CASE ReplySent(events)
      BY <2>1, <3>1, <3>3, EndFacts DEF EventTypes, ClientTypes, Filling, Newest
    <3>4. CASE ReplyBlocked(events)
      BY <2>1, <3>1, <3>4, EndFacts DEF EventTypes, ClientTypes, Filling, Newest
    <3>5. CASE ReplyFailed(events)
      BY <2>1, <3>1, <3>5, EndFacts DEF ReplyFailed, Hangup, Failure, slotVars,
         leaseVars, pollVars, readerVars, clientVars, hostVars, serverVars, Unread,
         vars, TInv, Types, ServerTypes, SlotTypes, UpTypes, Message, DownTypes,
         EventTypes, ClientTypes, Filling, Newest
    <3>6. QED
      BY <3>1, <3>2, <3>3, <3>4, <3>5 DEF reply_if_ready
  <2>2. CASE PublishBegin \/ PollBegin \/ PollHangup \/ PollReceive \/ PollOverflow \/
            PollReply \/ Deliver
    BY <2>2, Receives DEF PublishBegin, PollBegin, PollHangup, PollOverflow, PollReply,
       Deliver, EndPoll, slotVars, Unread, vars, Newest, TInv
  <2>3. QED
    BY <1>2, <2>1, <2>2 DEF Server
<1>3. CASE UNCHANGED vars
  BY <1>3 DEF slotVars, vars, Newest, TInv
<1>4. QED
  BY <1>1, <1>2, <1>3 DEF Next

LEMMA LeaseStep == ASSUME TInv, [Next]_vars PROVE Lease'
<1>1. CASE Client
  <2>1. CASE Tap
    BY <2>1 DEF Tap, Send, Open, slotVars, leaseVars, serverVars, TInv, DownTypes,
       EventTypes, ClientTypes, Filling, Newest, Whole, Lease
  <2>2. CASE ResendRelease
    BY <2>2 DEF ResendRelease, Send, Open, slotVars, leaseVars, serverVars, Unread,
       TInv, Message, DownTypes, EventTypes, ClientTypes, Filling, Newest, Whole, Lease
  <2>3. CASE SendRequest
    BY <2>3 DEF SendRequest, Send, Open, slotVars, leaseVars, serverVars, Unread, TInv,
       DownTypes, EventTypes, ClientTypes, Filling, Newest, Whole, Lease
  <2>4. CASE ReturnFrame
    BY <2>4 DEF ReturnFrame, Open, slotVars, leaseVars, serverVars, Unread, TInv,
       Message, DownTypes, EventTypes, ClientTypes, Filling, Newest, Whole, Lease
  <2>5. CASE Connect \/ ConnectTimeout \/ Close \/ ReadFrame \/ ReadTimeout \/
            ReadDisconnected \/ ReceiveFrame \/ CopyEnd
    BY <2>5 DEF Connect, ConnectTimeout, Close, ReadFrame, ReadTimeout,
       ReadDisconnected, ReceiveFrame, CopyEnd, slotVars, leaseVars, serverVars, Unread,
       Lease, TInv
  <2>6. QED
    BY <1>1, <2>1, <2>2, <2>3, <2>4, <2>5 DEF Client
<1>2. CASE Server
  <2>1. CASE PublishEnd
    <3>1. PICK events \in MayDefer : reply_if_ready(events) /\ deferred' = events
      BY <2>1 DEF PublishEnd
    <3>2. CASE NoReply(events)
      BY <2>1, <3>1, <3>2, EndFacts DEF NoReply, leaseVars, TInv, Types, ServerTypes,
         Filling, Newest, Whole, Lease
    <3>3. CASE ReplySent(events)
      BY <2>1, <3>1, <3>3, EndFacts DEF ReplySent, Answer, LeaseDue, Leased, slotVars,
         leaseVars, pollVars, readerVars, clientVars, hostVars, serverVars, Unread,
         vars, TInv, Types, ServerTypes, SlotTypes, UpTypes, Message, DownTypes,
         EventTypes, ClientTypes, Filling, Newest, Whole, Lease
    <3>4. CASE ReplyBlocked(events)
      BY <2>1, <3>1, <3>4, EndFacts DEF ReplyBlocked, Answer, LeaseDue, Leased,
         slotVars, leaseVars, TInv, Types, ServerTypes, EventTypes, ClientTypes,
         Filling, Newest, Whole, Lease
    <3>5. CASE ReplyFailed(events)
      BY <2>1, <3>1, <3>5, EndFacts DEF ReplyFailed, Hangup, ClientTypes, Filling,
         Newest, Whole, Lease
    <3>6. QED
      BY <3>1, <3>2, <3>3, <3>4, <3>5 DEF reply_if_ready
  <2>2. CASE PollBegin
    BY <2>2 DEF PollBegin, slotVars, TInv, Newest, Whole, Lease
  <2>3. CASE PollHangup
    BY <2>3 DEF PollHangup, Hangup, EventTypes, ClientTypes, Filling, Newest, Whole,
       Lease
  <2>4. CASE PollReceive
    BY <2>4, Receives DEF PollReceive, slotVars, leaseVars, pollVars, readerVars,
       clientVars, hostVars, serverVars, Unread, vars, TInv, Types, ServerTypes,
       SlotTypes, UpTypes, Message, DownTypes, EventTypes, ClientTypes, Filling, Newest,
       Whole, Lease
  <2>5. CASE PollOverflow
    BY <2>5 DEF PollOverflow, Hangup, Message, DownTypes, EventTypes, ClientTypes,
       Filling, Newest, Whole, Lease
  <2>6. CASE PollReply
    <3>1. PICK events \in MayDefer : reply_if_ready(events) /\ EndPoll(events)
      BY <2>6 DEF PollReply
    <3>2. CASE NoReply(events)
      BY <2>6, <3>1, <3>2 DEF EndPoll, NoReply, slotVars, leaseVars, TInv, Message,
         DownTypes, EventTypes, ClientTypes, Filling, Newest, Whole, Lease
    <3>3. CASE ReplySent(events)
      BY <2>6, <3>1, <3>3 DEF EndPoll, ReplySent, Answer, Leased, slotVars, TInv,
         SlotTypes, UpTypes, Message, DownTypes, EventTypes, ClientTypes, Filling,
         Newest, Whole, Lease
    <3>4. CASE ReplyBlocked(events)
      BY <2>6, <3>1, <3>4 DEF EndPoll, ReplyBlocked, Answer, Leased, slotVars, TInv,
         SlotTypes, UpTypes, Message, DownTypes, EventTypes, ClientTypes, Filling,
         Newest, Whole, Lease
    <3>5. CASE ReplyFailed(events)
      BY <2>6, <3>1, <3>5 DEF ReplyFailed, Hangup, UpTypes, Message, DownTypes,
         EventTypes, ClientTypes, Filling, Newest, Whole, Lease
    <3>6. QED
      BY <3>1, <3>2, <3>3, <3>4, <3>5 DEF reply_if_ready
  <2>7. CASE PublishBegin \/ Deliver
    BY <2>7 DEF PublishBegin, Deliver, slotVars, leaseVars, Lease, TInv
  <2>8. QED
    BY <1>2, <2>1, <2>2, <2>3, <2>4, <2>5, <2>6, <2>7 DEF Server
<1>3. CASE UNCHANGED vars
  BY <1>3 DEF slotVars, leaseVars, vars, Lease, TInv
<1>4. QED
  BY <1>1, <1>2, <1>3 DEF Next

LEMMA PendingFitsStep == ASSUME TInv, [Next]_vars PROVE PendingFits'
<1>1. CASE Client
  <2>1. CASE Connect \/ ConnectTimeout \/ Close \/ Tap \/ ReadFrame \/ ResendRelease \/
            SendRequest \/ ReadTimeout \/ ReadDisconnected \/ ReceiveFrame \/ CopyEnd \/
            ReturnFrame
    BY <2>1 DEF Connect, ConnectTimeout, Close, Tap, ReadFrame, ResendRelease,
       SendRequest, ReadTimeout, ReadDisconnected, ReceiveFrame, CopyEnd, ReturnFrame,
       leaseVars, pollVars, readerVars, clientVars, hostVars, serverVars, Unread, vars,
       PendingFits, TInv
  <2>2. QED
    BY <1>1, <2>1 DEF Client
<1>2. CASE Server
  <2>1. CASE PublishEnd
    <3>1. PICK events \in MayDefer : reply_if_ready(events) /\ deferred' = events
      BY <2>1 DEF PublishEnd
    <3>2. CASE NoReply(events)
      BY <3>2 DEF NoReply, leaseVars, TInv, PendingFits
    <3>3. CASE ReplySent(events)
      BY <3>3 DEF ReplySent, Answer, Leased, TInv, PendingFits
    <3>4. CASE ReplyBlocked(events)
      BY <2>1, <3>4, EndFacts DEF ReplyBlocked, Answer, Leased, TInv, PendingFits
    <3>5. CASE ReplyFailed(events)
      BY <3>5 DEF ReplyFailed, Hangup, PendingFits
    <3>6. QED
      BY <3>1, <3>2, <3>3, <3>4, <3>5 DEF reply_if_ready
  <2>2. CASE PollHangup
    BY <2>2 DEF PollHangup, Hangup, PendingFits
  <2>3. CASE PollReceive
    BY <2>3, Receives DEF TInv, PendingFits
  <2>4. CASE PollOverflow
    BY <2>4 DEF PollOverflow, Hangup, PendingFits
  <2>5. CASE PollReply
    <3>1. PICK events \in MayDefer : reply_if_ready(events) /\ EndPoll(events)
      BY <2>5 DEF PollReply
    <3>2. CASE NoReply(events)
      BY <3>2 DEF NoReply, leaseVars, TInv, PendingFits
    <3>3. CASE ReplySent(events)
      BY <2>5, <3>1, <3>3 DEF ReplySent, Answer, Leased, TInv, PendingFits
    <3>4. CASE ReplyBlocked(events)
      BY <2>5, <3>1, <3>4 DEF ReplyBlocked, Answer, LeaseDue, Leased, TInv, PendingFits
    <3>5. CASE ReplyFailed(events)
      BY <3>1, <3>5 DEF ReplyFailed, Hangup, PendingFits
    <3>6. QED
      BY <3>1, <3>2, <3>3, <3>4, <3>5 DEF reply_if_ready
  <2>6. CASE PublishBegin \/ PollBegin \/ Deliver
    BY <2>6 DEF PublishBegin, PollBegin, Deliver, leaseVars, PendingFits, TInv
  <2>7. QED
    BY <1>2, <2>1, <2>2, <2>3, <2>4, <2>5, <2>6 DEF Server
<1>3. CASE UNCHANGED vars
  BY <1>3 DEF leaseVars, vars, PendingFits, TInv
<1>4. QED
  BY <1>1, <1>2, <1>3 DEF Next

LEMMA PlacesStep == ASSUME TInv, [Next]_vars PROVE Places'
<1>1. CASE Client
  <2>1. CASE Connect
    BY <2>1 DEF Connect, Places
  <2>2. CASE ConnectTimeout
    BY <2>2 DEF ConnectTimeout, readerVars, TInv, Places
  <2>3. CASE Close
    BY <2>3 DEF Close, readerVars, TInv, Places
  <2>4. CASE ReadFrame
    BY <2>4 DEF ReadFrame, clientVars, Unread, TInv, Places
  <2>5. CASE ResendRelease
    BY <2>5 DEF ResendRelease, clientVars, Unread, TInv, Places
  <2>6. CASE SendRequest
    BY <2>6 DEF SendRequest, clientVars, Unread, TInv, Places
  <2>7. CASE ReadTimeout
    BY <2>7 DEF ReadTimeout, clientVars, Unread, TInv, Places
  <2>8. CASE ReadDisconnected
    BY <2>8 DEF ReadDisconnected, clientVars, Unread, TInv, Places
  <2>9. CASE ReceiveFrame
    BY <2>9 DEF ReceiveFrame, clientVars, Unread, TInv, Places
  <2>10. CASE CopyEnd
    BY <2>10 DEF CopyEnd, clientVars, Unread, TInv, Places
  <2>11. CASE ReturnFrame
    BY <2>11 DEF ReturnFrame, clientVars, Unread, TInv, Places
  <2>12. CASE Tap
    BY <2>12 DEF Tap, readerVars, Places, TInv
  <2>13. QED
    BY <1>1, <2>1, <2>2, <2>3, <2>4, <2>5, <2>6, <2>7, <2>8, <2>9, <2>10, <2>11, <2>12
       DEF Client
<1>2. CASE Server
  <2>1. CASE PollBegin
    BY <2>1 DEF PollBegin, readerVars, TInv, Places
  <2>2. CASE PollReply
    <3>1. PICK events \in MayDefer : reply_if_ready(events) /\ EndPoll(events)
      BY <2>2 DEF PollReply
    <3>2. CASE NoReply(events)
      BY <2>2 DEF PollReply, EndPoll, readerVars, clientVars, TInv, Places
    <3>3. CASE ReplySent(events)
      BY <2>2, <3>1, <3>3 DEF PollReply, EndPoll, readerVars, clientVars, TInv, Places
    <3>4. CASE ReplyBlocked(events)
      BY <2>2, <3>1, <3>4 DEF PollReply, EndPoll, readerVars, clientVars, TInv, Places
    <3>5. CASE ReplyFailed(events)
      BY <3>1, <3>5 DEF EndPoll, ReplyFailed, readerVars, clientVars, TInv, Places
    <3>6. QED
      BY <3>1, <3>2, <3>3, <3>4, <3>5 DEF reply_if_ready
  <2>3. CASE PublishBegin \/ PublishEnd \/ PollHangup \/ PollReceive \/ PollOverflow \/
            Deliver
    BY <2>3, Receives DEF PublishBegin, PublishEnd, PollHangup, PollOverflow, Deliver,
       EndPoll, readerVars, clientVars, vars, Places, TInv
  <2>4. QED
    BY <1>2, <2>1, <2>2, <2>3 DEF Server
<1>3. CASE UNCHANGED vars
  BY <1>3 DEF readerVars, clientVars, vars, Places, TInv
<1>4. QED
  BY <1>1, <1>2, <1>3 DEF Next

LEMMA NotAccusedStep == ASSUME TInv, [Next]_vars PROVE NotAccused'
<1>1. CASE Client
  <2>1. CASE Connect \/ ConnectTimeout \/ Close \/ Tap \/ ReadFrame \/ ResendRelease \/
            SendRequest \/ ReadTimeout \/ ReadDisconnected \/ ReceiveFrame \/ CopyEnd \/
            ReturnFrame
    BY <2>1 DEF Connect, ConnectTimeout, Close, Tap, ReadFrame, ResendRelease,
       SendRequest, ReadTimeout, ReadDisconnected, ReceiveFrame, CopyEnd, ReturnFrame,
       pollVars, readerVars, clientVars, hostVars, serverVars, Unread, vars, NotAccused,
       TInv
  <2>2. QED
    BY <1>1, <2>1 DEF Client
<1>2. CASE Server
  <2>1. CASE PublishEnd
    <3>1. PICK events \in MayDefer : reply_if_ready(events) /\ deferred' = events
      BY <2>1 DEF PublishEnd
    <3>2. CASE NoReply(events)
      BY <3>1, <3>2 DEF NoReply, TInv, NotAccused
    <3>3. CASE ReplySent(events)
      BY <3>1, <3>3 DEF ReplySent, TInv, NotAccused
    <3>4. CASE ReplyBlocked(events)
      BY <3>1, <3>4 DEF ReplyBlocked, TInv, NotAccused
    <3>5. CASE ReplyFailed(events)
      BY <3>1, <3>5 DEF ReplyFailed, Failure, TInv, NotAccused
    <3>6. QED
      BY <3>1, <3>2, <3>3, <3>4, <3>5 DEF reply_if_ready
  <2>2. CASE PollHangup
    BY <2>2 DEF PollHangup, Failure, TInv, NotAccused
  <2>3. CASE PollReceive
    <3>1. Head(up).seq \in Nat
      <4>1. Head(up) \in Message
        BY <2>3, Receives DEF TInv, Types, UpTypes
      <4>2. QED
        BY <4>1 DEF Message
    <3>2. CASE deferred' = deferred
      BY <3>2 DEF TInv, NotAccused
    <3>3. CASE deferred' = Append(deferred, TapEvent(Head(up).seq))
      <4>1. TapEvent(Head(up).seq) \in Event /\ TapEvent(Head(up).seq).kind = "Tap"
        BY <3>1, Events DEF TapEvent
      <4>2. QED
        BY <3>3, <4>1, AppendFacts DEF TInv, Types, EventTypes, NotAccused
    <3>4. QED
      BY <2>3, <3>2, <3>3, Receives
  <2>4. CASE PollOverflow
    BY <2>4 DEF PollOverflow, EndPoll, NotAccused
  <2>5. CASE PollReply
    <3>1. PICK events \in MayDefer : reply_if_ready(events) /\ EndPoll(events)
      BY <2>5 DEF PollReply
    <3>2. CASE NoReply(events)
      BY <3>1, Events DEF EndPoll, NotAccused
    <3>3. CASE ReplySent(events)
      BY <3>1, <3>3, Events DEF EndPoll, NotAccused
    <3>4. CASE ReplyBlocked(events)
      BY <3>1, <3>4, Events DEF EndPoll, NotAccused
    <3>5. CASE ReplyFailed(events)
      BY <3>1, <3>5, Events DEF EndPoll, NotAccused
    <3>6. QED
      BY <3>1, <3>2, <3>3, <3>4, <3>5 DEF reply_if_ready
  <2>6. CASE PublishBegin \/ PollBegin \/ Deliver
    BY <2>6 DEF PublishBegin, PollBegin, Deliver, NotAccused, TInv
  <2>7. QED
    BY <1>2, <2>1, <2>2, <2>3, <2>4, <2>5, <2>6 DEF Server
<1>3. CASE UNCHANGED vars
  BY <1>3 DEF vars, NotAccused, TInv
<1>4. QED
  BY <1>1, <1>2, <1>3 DEF Next

LEMMA EventRoomStep == ASSUME TInv, [Next]_vars PROVE EventRoom'
<1>1. CASE Client
  <2>1. CASE Connect \/ ConnectTimeout \/ Close \/ Tap \/ ReadFrame \/ ResendRelease \/
            SendRequest \/ ReadTimeout \/ ReadDisconnected \/ ReceiveFrame \/ CopyEnd \/
            ReturnFrame
    BY <2>1 DEF Connect, ConnectTimeout, Close, Tap, ReadFrame, ResendRelease,
       SendRequest, ReadTimeout, ReadDisconnected, ReceiveFrame, CopyEnd, ReturnFrame,
       leaseVars, pollVars, readerVars, clientVars, hostVars, serverVars, Unread, vars,
       EventRoom, TInv
  <2>2. QED
    BY <1>1, <2>1 DEF Client
<1>2. CASE Server
  <2>1. CASE PublishBegin
    BY <2>1, BeginFacts DEF pollVars, readerVars, clientVars, TInv, EventRoom
  <2>2. CASE PublishEnd
    <3>1. PICK events \in MayDefer : reply_if_ready(events) /\ deferred' = events
      BY <2>2 DEF PublishEnd
    <3>2. CASE NoReply(events)
      BY <2>2, <3>1, <3>2, EndFacts DEF NoReply, slotVars, leaseVars, pollVars, TInv,
         EventRoom
    <3>3. CASE ReplySent(events)
      BY <2>2, <3>1, <3>3, EndFacts DEF ReplySent, Answer, LeaseDue, Leased, slotVars,
         hostVars, TInv, EventRoom
    <3>4. CASE ReplyBlocked(events)
      BY <2>2, <3>1, <3>4, EndFacts DEF ReplyBlocked, Answer, TInv, EventRoom
    <3>5. CASE ReplyFailed(events)
      BY <2>2, <3>1, <3>5, EndFacts DEF ReplyFailed, Hangup, slotVars, leaseVars, TInv,
         EventRoom
    <3>6. QED
      BY <3>1, <3>2, <3>3, <3>4, <3>5 DEF reply_if_ready
  <2>3. CASE PollBegin
    BY <2>3 DEF PollBegin, TInv, EventRoom
  <2>4. CASE PollHangup
    BY <2>4 DEF PollHangup, Draining, Hangup, pollVars, TInv, Types, ServerTypes,
       EventRoom
  <2>5. CASE PollReceive
    BY <2>5, Receives DEF pollVars, readerVars, TInv, Types, ServerTypes, EventRoom
  <2>6. CASE PollOverflow
    BY <2>6 DEF PollOverflow, Overflowing, EndPoll, TInv, Types, ServerTypes, EventRoom
  <2>7. CASE PollReply
    <3>1. PICK events \in MayDefer : reply_if_ready(events) /\ EndPoll(events)
      BY <2>7 DEF PollReply
    <3>2. events = deferred \/ (client = "open" /\ events = Append(deferred, Failure("Disconnect")))
      BY <3>1 DEF reply_if_ready, NoReply, ReplySent, ReplyBlocked, ReplyFailed
    <3>3. Len(deferred) <= MaxMessages + 2 /\ (client = "open" => Len(deferred) <= MaxMessages + 1)
      BY TransportAssumption DEF TInv, Types, ServerTypes, EventRoom
    <3>4. Len(events) <= MaxMessages + 2
      <4>1. Len(Append(deferred, Failure("Disconnect"))) = Len(deferred) + 1 /\
              Len(deferred) \in Nat
        OBVIOUS
      <4>2. QED
        BY <3>2, <3>3, <4>1, TransportAssumption
    <3>5. QED
      BY <3>1, <3>4 DEF EndPoll, EventRoom
  <2>8. CASE Deliver
    <3>1. delivery' = Tail(delivery) /\ delivery # <<>> /\ mutex # "poll"
      BY <2>8 DEF Deliver
    <3>2. Len(delivery') <= MaxMessages + 2
      BY <3>1, TransportAssumption DEF TInv, EventRoom
    <3>3. UNCHANGED <<mutex, client, deferred, received>>
      BY <2>8 DEF Deliver, leaseVars
    <3>4. QED
      BY <3>1, <3>2, <3>3 DEF TInv, EventRoom
  <2>9. QED
    BY <1>2, <2>1, <2>2, <2>3, <2>4, <2>5, <2>6, <2>7, <2>8 DEF Server
<1>3. CASE UNCHANGED vars
  BY <1>3 DEF leaseVars, pollVars, vars, EventRoom, TInv
<1>4. QED
  BY <1>1, <1>2, <1>3 DEF Next

LEMMA ReleasesFitStep == ASSUME TInv, [Next]_vars PROVE ReleasesFit'
<1>1. CASE Client
  <2>1. CASE Tap
    <3>1. up' = Append(up, Packet("Tap", sent + 1, 0)) /\ UNCHANGED <<sequence, leaseVars>>
      BY <2>1 DEF Tap, Send, serverVars, slotVars
    <3>2. Packet("Tap", sent + 1, 0) \in Message /\ Packet("Tap", sent + 1, 0).op = "Tap"
      BY Packets DEF Packet, TInv, Types
    <3>3. QED
      BY <3>1, <3>2, ReleasesFitTap DEF TInv, Types
  <2>2. CASE ResendRelease
    <3>1. up' = Append(up, Release) /\ UNCHANGED <<sequence, leaseVars>>
      BY <2>2 DEF ResendRelease, Send, serverVars, slotVars, Unread
    <3>2. Release \in Message /\ Release.op = "Release" /\ Release.seq = copy.seq
      BY Packets DEF Release, Packet, TInv, Types
    <3>3. Open /\ HoldsLease /\ ~Has("Release") /\ Quiet
      BY <2>2 DEF ResendRelease, Send, TInv, Places, OwesNothing, Holding
    <3>5. QED
      BY <3>1, <3>2, <3>3, ReleasesFitRelease DEF TInv, Types, Quiet
  <2>3. CASE SendRequest
    <3>1. up' = Append(up, Packet("Request", last_sequence, 0)) /\ UNCHANGED <<sequence, leaseVars>>
      BY <2>3 DEF SendRequest, Send, serverVars, slotVars, Unread
    <3>2. Packet("Request", last_sequence, 0) \in Message /\
            Packet("Request", last_sequence, 0).op = "Request" /\
              Packet("Request", last_sequence, 0).seq = last_sequence
      BY Packets DEF Packet, TInv, Types
    <3>3. QED
      BY <3>1, <3>2, ReleasesFitTap DEF TInv, Types
  <2>4. CASE ReturnFrame
    <3>1. Send(Release) => up' = Append(up, Release) /\ UNCHANGED <<sequence, leaseVars>>
      BY <2>4 DEF ReturnFrame, Send, serverVars, slotVars, Unread
    <3>2. Release \in Message /\ Release.op = "Release" /\ Release.seq = copy.seq
      BY Packets DEF Release, Packet, TInv, Types
    <3>3. Open /\ HoldsLease /\ ~Has("Release") /\ Quiet
      BY <2>4 DEF ReturnFrame, TInv, Places, OwesNothing, Holding
    <3>5. CASE Send(Release)
      BY <3>1, <3>2, <3>3, <3>5, ReleasesFitRelease DEF TInv, Types, Quiet
    <3>6. CASE UNCHANGED up
      BY <2>4, <3>6 DEF ReturnFrame, Unread, serverVars, leaseVars, TInv, ReleasesFit
    <3>7. QED
      BY <2>4, <3>6, <3>5 DEF ReturnFrame
  <2>5. CASE Connect \/ ConnectTimeout \/ Close \/ ReadFrame \/ ReadTimeout \/
            ReadDisconnected \/ ReceiveFrame \/ CopyEnd
    BY <2>5 DEF Connect, ConnectTimeout, Close, ReadFrame, ReadTimeout,
       ReadDisconnected, ReceiveFrame, CopyEnd, leaseVars, serverVars, Unread,
       ReleasesFit, TInv
  <2>6. QED
    BY <1>1, <2>1, <2>2, <2>3, <2>4, <2>5 DEF Client
<1>2. CASE Server
  <2>1. CASE PublishEnd
    <3>1. PICK events \in MayDefer : reply_if_ready(events) /\ deferred' = events
      BY <2>1 DEF PublishEnd
    <3>2. CASE NoReply(events)
      BY <3>2 DEF NoReply, leaseVars, TInv, ReleasesFit
    <3>3. CASE ReplySent(events)
      BY <3>3 DEF ReplySent, Answer, LeaseDue, vars, TInv, ReleasesFit
    <3>4. CASE ReplyBlocked(events)
      BY <3>4 DEF ReplyBlocked, Answer, LeaseDue, TInv, ReleasesFit
    <3>5. CASE ReplyFailed(events)
      BY <3>5 DEF ReplyFailed, Hangup, ReleasesFit
    <3>6. QED
      BY <3>1, <3>2, <3>3, <3>4, <3>5 DEF reply_if_ready
  <2>2. CASE PollBegin
    BY <2>2 DEF PollBegin, TInv, ReleasesFit
  <2>3. CASE PollHangup
    BY <2>3 DEF PollHangup, Hangup, ReleasesFit
  <2>4. CASE PollReceive
    BY <2>4, Receives, ReleasesFitTail DEF TInv, Types
  <2>5. CASE PollOverflow
    BY <2>5 DEF PollOverflow, Hangup, ReleasesFit
  <2>6. CASE PollReply
    <3>1. PICK events \in MayDefer : reply_if_ready(events) /\ EndPoll(events)
      BY <2>6 DEF PollReply
    <3>2. CASE NoReply(events)
      BY <3>2 DEF NoReply, leaseVars, TInv, ReleasesFit
    <3>3. CASE ReplySent(events)
      BY <3>1, <3>3 DEF ReplySent, Answer, LeaseDue, TInv, ReleasesFit
    <3>4. CASE ReplyBlocked(events)
      BY <3>1, <3>4 DEF ReplyBlocked, Answer, LeaseDue, TInv, ReleasesFit
    <3>5. CASE ReplyFailed(events)
      BY <3>5 DEF ReplyFailed, Hangup, ReleasesFit
    <3>6. QED
      BY <3>1, <3>2, <3>3, <3>4, <3>5 DEF reply_if_ready
  <2>7. CASE PublishBegin \/ Deliver
    BY <2>7 DEF PublishBegin, Deliver, leaseVars, ReleasesFit, TInv
  <2>8. QED
    BY <1>2, <2>1, <2>2, <2>3, <2>4, <2>5, <2>6, <2>7 DEF Server
<1>3. CASE UNCHANGED vars
  BY <1>3 DEF leaseVars, vars, ReleasesFit, TInv
<1>4. QED
  BY <1>1, <1>2, <1>3 DEF Next

LEMMA RequestsFitStep == ASSUME TInv, [Next]_vars PROVE RequestsFit'
<1>1. CASE Client
  <2>1. CASE Tap
    <3>1. up' = Append(up, Packet("Tap", sent + 1, 0)) /\ UNCHANGED <<sequence, leaseVars>>
      BY <2>1 DEF Tap, Send, serverVars, slotVars
    <3>2. Packet("Tap", sent + 1, 0) \in Message /\ Packet("Tap", sent + 1, 0).op = "Tap"
      BY Packets DEF Packet, TInv, Types
    <3>3. QED
      BY <3>1, <3>2, RequestsFitTap DEF TInv, Types
  <2>2. CASE ResendRelease
    <3>1. up' = Append(up, Release) /\ UNCHANGED <<sequence, leaseVars>>
      BY <2>2 DEF ResendRelease, Send, serverVars, slotVars, Unread
    <3>2. Release \in Message /\ Release.op = "Release" /\ Release.seq = copy.seq
      BY Packets DEF Release, Packet, TInv, Types
    <3>3. Open /\ HoldsLease /\ ~Has("Release") /\ Quiet
      BY <2>2 DEF ResendRelease, Send, TInv, Places, OwesNothing, Holding
    <3>5. QED
      BY <3>1, <3>2, <3>3, RequestsFitRelease DEF TInv, Types, Quiet
  <2>3. CASE SendRequest
    <3>1. up' = Append(up, Packet("Request", last_sequence, 0)) /\ UNCHANGED <<sequence, leaseVars>>
      BY <2>3 DEF SendRequest, Send, serverVars, slotVars, Unread
    <3>2. Packet("Request", last_sequence, 0) \in Message /\
            Packet("Request", last_sequence, 0).op = "Request" /\
              Packet("Request", last_sequence, 0).seq = last_sequence
      BY Packets DEF Packet, TInv, Types
    <3>3. /\ ~request_pending /\ ~frame_reply_pending /\ ~Has("Request")
          /\ leased_slot # NoSlot => Has("Release")
      BY <2>3 DEF SendRequest, Send, TInv, Places, OwesNothing, Returned, Quiet
    <3>4. last_sequence <= sequence
      BY DEF TInv, Types, ClientTypes
    <3>5. QED
      BY <3>1, <3>2, <3>3, <3>4, RequestsFitRequest DEF TInv, Types
  <2>4. CASE ReturnFrame
    <3>1. Send(Release) => up' = Append(up, Release) /\ UNCHANGED <<sequence, leaseVars>>
      BY <2>4 DEF ReturnFrame, Send, serverVars, slotVars, Unread
    <3>2. Release \in Message /\ Release.op = "Release" /\ Release.seq = copy.seq
      BY Packets DEF Release, Packet, TInv, Types
    <3>3. Open /\ HoldsLease /\ ~Has("Release") /\ Quiet
      BY <2>4 DEF ReturnFrame, TInv, Places, OwesNothing, Holding
    <3>5. CASE Send(Release)
      BY <3>1, <3>2, <3>3, <3>5, RequestsFitRelease DEF TInv, Types, Quiet
    <3>6. CASE UNCHANGED up
      BY <2>4, <3>6 DEF ReturnFrame, Unread, serverVars, slotVars, leaseVars, TInv,
         RequestsFit, Has
    <3>7. QED
      BY <2>4, <3>6, <3>5 DEF ReturnFrame
  <2>5. CASE Connect \/ ConnectTimeout \/ Close \/ ReadFrame \/ ReadTimeout \/
            ReadDisconnected \/ ReceiveFrame \/ CopyEnd
    BY <2>5 DEF Connect, ConnectTimeout, Close, ReadFrame, ReadTimeout,
       ReadDisconnected, ReceiveFrame, CopyEnd, slotVars, leaseVars, serverVars, Unread,
       RequestsFit, Has, TInv
  <2>6. QED
    BY <1>1, <2>1, <2>2, <2>3, <2>4, <2>5 DEF Client
<1>2. CASE Server
  <2>1. CASE PublishEnd
    <3>1. PICK events \in MayDefer : reply_if_ready(events) /\ deferred' = events
      BY <2>1 DEF PublishEnd
    <3>2. CASE NoReply(events)
      <4>1. sequence' = sequence + 1 /\ sequence \in Nat
        BY <2>1, EndFacts DEF TInv, Types, ServerTypes
      <4>2. \A k \in 1..Len(up) : up[k].seq \in Nat
        <5>1. \A k \in 1..Len(up) : up[k] \in Message
          BY DEF TInv, Types, UpTypes
        <5>2. QED
          BY <5>1 DEF Message
      <4>3. UNCHANGED <<leaseVars, up>>
        BY <3>2 DEF NoReply
      <4>4. QED
        BY <4>1, <4>2, <4>3 DEF leaseVars, TInv, RequestsFit, Has
    <3>3. CASE ReplySent(events)
      BY <3>3 DEF ReplySent, Answer, LeaseDue, TInv, RequestsFit
    <3>4. CASE ReplyBlocked(events)
      BY <3>4 DEF ReplyBlocked, Answer, LeaseDue, TInv, RequestsFit
    <3>5. CASE ReplyFailed(events)
      BY <3>5 DEF ReplyFailed, Hangup, RequestsFit
    <3>6. QED
      BY <3>1, <3>2, <3>3, <3>4, <3>5 DEF reply_if_ready
  <2>2. CASE PollBegin
    BY <2>2 DEF PollBegin, slotVars, TInv, RequestsFit, Has
  <2>3. CASE PollHangup
    BY <2>3 DEF PollHangup, Hangup, RequestsFit
  <2>4. CASE PollReceive
    BY <2>4, Receives, RequestsFitTail DEF slotVars, TInv, Types
  <2>5. CASE PollOverflow
    BY <2>5 DEF PollOverflow, Hangup, RequestsFit
  <2>6. CASE PollReply
    <3>1. PICK events \in MayDefer : reply_if_ready(events) /\ EndPoll(events)
      BY <2>6 DEF PollReply
    <3>2. CASE NoReply(events)
      BY <3>1, <3>2 DEF EndPoll, NoReply, slotVars, leaseVars, TInv, RequestsFit, Has
    <3>3. CASE ReplySent(events)
      BY <2>6, <3>1, <3>3 DEF ReplySent, Answer, LeaseDue, TInv, RequestsFit
    <3>4. CASE ReplyBlocked(events)
      BY <2>6, <3>1, <3>4 DEF ReplyBlocked, Answer, LeaseDue, TInv, RequestsFit
    <3>5. CASE ReplyFailed(events)
      BY <3>1, <3>5 DEF ReplyFailed, Hangup, RequestsFit
    <3>6. QED
      BY <3>1, <3>2, <3>3, <3>4, <3>5 DEF reply_if_ready
  <2>7. CASE PublishBegin \/ Deliver
    BY <2>7 DEF PublishBegin, Deliver, slotVars, leaseVars, RequestsFit, Has, TInv
  <2>8. QED
    BY <1>2, <2>1, <2>2, <2>3, <2>4, <2>5, <2>6, <2>7 DEF Server
<1>3. CASE UNCHANGED vars
  BY <1>3 DEF slotVars, leaseVars, vars, RequestsFit, Has, TInv
<1>4. QED
  BY <1>1, <1>2, <1>3 DEF Next

LEMMA DownStep == ASSUME TInv, [Next]_vars PROVE Down'
<1>1. CASE Client
  <2>1. CASE Connect
    BY <2>1, TailFacts DEF Connect, Down
  <2>2. CASE ConnectTimeout
    BY <2>2, TailFacts DEF ConnectTimeout, Down
  <2>3. CASE Close
    BY <2>3, TailFacts DEF Close, Down
  <2>4. CASE ReadFrame
    BY <2>4, TailFacts DEF ReadFrame, slotVars, leaseVars, serverVars, Unread, TInv,
       Down
  <2>5. CASE ResendRelease
    BY <2>5, TailFacts DEF ResendRelease, TInv, Down, ReleasesFit, Places, PendingFits,
       Lease
  <2>6. CASE SendRequest
    BY <2>6, TailFacts DEF SendRequest, TInv, Down, Places, PendingFits, Lease
  <2>7. CASE ReadTimeout
    BY <2>7, TailFacts DEF ReadTimeout, TInv, Down, Places
  <2>8. CASE ReadDisconnected
    BY <2>8, TailFacts DEF ReadDisconnected, slotVars, leaseVars, serverVars, Unread,
       TInv, Down, Places
  <2>9. CASE ReceiveFrame
    BY <2>9, TailFacts DEF ReceiveFrame, TInv, Down, Places
  <2>10. CASE CopyEnd
    BY <2>10, TailFacts DEF CopyEnd, TInv, Down, Places
  <2>11. CASE ReturnFrame
    BY <2>11, TailFacts DEF ReturnFrame, TInv, Down, ReleasesFit, Places, PendingFits,
       Lease
  <2>12. CASE Tap
    BY <2>12 DEF Tap, slotVars, leaseVars, readerVars, serverVars, Down, TInv
  <2>13. QED
    BY <1>1, <2>1, <2>2, <2>3, <2>4, <2>5, <2>6, <2>7, <2>8, <2>9, <2>10, <2>11, <2>12
       DEF Client
<1>2. CASE Server
  <2>1. CASE PublishEnd
    <3>1. CASE Silent
      <4>1. \A k \in 1..Len(down) : down[k].seq \in Nat
        <5>1. \A k \in 1..Len(down) : down[k] \in [slot : Slot, seq : Nat]
          BY Elements DEF TInv, Types, DownTypes
        <5>2. QED
          BY <5>1
      <4>2. UNCHANGED <<down, reading, reader, last_sequence, client, handle_state, leased_slot,
                        leased_sequence, frame_reply_pending>>
        BY <2>1, <3>1, Replies DEF Silent, readerVars, clientVars
      <4>3. \A k \in 1..Len(down) : down[k].seq <= sequence => down[k].seq <= sequence'
        BY <2>1, <4>1, Replies
      <4>4. QED
        BY <4>2, <4>3 DEF TInv, Down
    <3>2. CASE Dropped
      BY <2>1, <3>2, Replies DEF Dropped, readerVars, clientVars, TInv, Down
    <3>3. CASE Answered
      <4>1. ASSUME handle_state = "connected"
            PROVE  reading /\ reader # "copy" /\ down = <<>> /\ last_sequence < leased_sequence'
        BY <3>3, <4>1, AsksFor DEF Answered, Open
      <4>2. leased_sequence' <= sequence'
        BY <2>1, <3>3, Replies DEF Answered
      <4>3. CASE down' = down
        BY <2>1, <4>1, <4>3, Replies DEF clientVars, Down
      <4>4. CASE /\ down' = Append(down, [slot |-> leased_slot', seq |-> leased_sequence'])
                 /\ ~frame_reply_pending'
        <5>1. handle_state = "connected" =>
                 Len(down') = 1 /\ down'[1] = [slot |-> leased_slot', seq |-> leased_sequence']
          BY <4>1, <4>4
        <5>2. QED
          BY <2>1, <4>1, <4>2, <4>4, <5>1, Replies DEF readerVars, clientVars, Down
      <4>5. QED
        BY <3>3, <4>3, <4>4 DEF Answered
    <3>4. QED
      BY <2>1, <3>1, <3>2, <3>3, Replies
  <2>2. CASE PollBegin
    BY <2>2, TailFacts DEF PollBegin, slotVars, readerVars, TInv, Down
  <2>3. CASE PollHangup
    BY <2>3, TailFacts DEF PollHangup, clientVars, TInv, Down, Places, PendingFits,
       Lease
  <2>4. CASE PollReceive
    <3>1. Open /\ down # <<>> => Head(up).op # "Release"
      BY <2>4, Receives, HeadHas DEF Open, TInv, Types, UpTypes, Down, Waiting
    <3>2. QED
      BY <2>4, <3>1, Receives DEF slotVars, readerVars, clientVars, Open, TInv, Down
  <2>5. CASE PollOverflow
    BY <2>5, TailFacts DEF PollOverflow, Hangup, EndPoll, slotVars, readerVars,
       clientVars, TInv, Down, ReleasesFit, Places, PendingFits, Lease
  <2>6. CASE PollReply
    <3>1. CASE Silent
      <4>1. \A k \in 1..Len(down) : down[k].seq \in Nat
        <5>1. \A k \in 1..Len(down) : down[k] \in [slot : Slot, seq : Nat]
          BY Elements DEF TInv, Types, DownTypes
        <5>2. QED
          BY <5>1
      <4>2. UNCHANGED <<down, reading, reader, last_sequence, client, handle_state, leased_slot,
                        leased_sequence, frame_reply_pending>>
        BY <2>6, <3>1, Replies DEF Silent, readerVars, clientVars
      <4>3. \A k \in 1..Len(down) : down[k].seq <= sequence => down[k].seq <= sequence'
        BY <2>6, <4>1, Replies
      <4>4. QED
        BY <4>2, <4>3 DEF TInv, Down
    <3>2. CASE Dropped
      BY <2>6, <3>2, Replies DEF Dropped, readerVars, clientVars, TInv, Down
    <3>3. CASE Answered
      <4>1. ASSUME handle_state = "connected"
            PROVE  reading /\ reader # "copy" /\ down = <<>> /\ last_sequence < leased_sequence'
        BY <3>3, <4>1, AsksFor DEF Answered, Open
      <4>2. leased_sequence' <= sequence'
        BY <2>6, <3>3, Replies DEF Answered
      <4>3. CASE down' = down
        BY <2>6, <4>1, <4>3, Replies DEF clientVars, Down
      <4>4. CASE /\ down' = Append(down, [slot |-> leased_slot', seq |-> leased_sequence'])
                 /\ ~frame_reply_pending'
        <5>1. handle_state = "connected" =>
                 Len(down') = 1 /\ down'[1] = [slot |-> leased_slot', seq |-> leased_sequence']
          BY <4>1, <4>4
        <5>2. QED
          BY <2>6, <4>1, <4>2, <4>4, <5>1, Replies DEF readerVars, clientVars, Down
      <4>5. QED
        BY <3>3, <4>3, <4>4 DEF Answered
    <3>4. QED
      BY <2>6, <3>1, <3>2, <3>3, Replies
  <2>7. CASE PublishBegin \/ Deliver
    BY <2>7 DEF PublishBegin, Deliver, slotVars, leaseVars, readerVars, clientVars,
       Down, TInv
  <2>8. QED
    BY <1>2, <2>1, <2>2, <2>3, <2>4, <2>5, <2>6, <2>7 DEF Server
<1>3. CASE UNCHANGED vars
  BY <1>3 DEF slotVars, leaseVars, readerVars, clientVars, vars, Down, TInv
<1>4. QED
  BY <1>1, <1>2, <1>3 DEF Next

LEMMA OwesNothingStep == ASSUME TInv, [Next]_vars PROVE OwesNothing'
<1>1. CASE Client
  <2>1. CASE Connect
    BY <2>1 DEF Connect, OwesNothing, Open, Lease
  <2>2. CASE ConnectTimeout
    BY <2>2 DEF ConnectTimeout, OwesNothing, Open, Lease
  <2>3. CASE Close
    BY <2>3 DEF Close, OwesNothing, Open, Lease
  <2>4. CASE Tap
    BY <2>4 DEF Tap, Send, Packet, leaseVars, readerVars, serverVars, TInv, OwesNothing,
       Quiet, Has, RequestsFit, Places, PendingFits, Lease
  <2>5. CASE ReadFrame
    BY <2>5 DEF ReadFrame, leaseVars, serverVars, Unread, TInv, OwesNothing, Quiet,
       Open, Has, Lease
  <2>6. CASE ResendRelease
    BY <2>6 DEF ResendRelease, Send, Packet, Release, leaseVars, serverVars, Unread,
       TInv, OwesNothing, Quiet, Has, Waiting, RequestsFit, Places, PendingFits, Lease
  <2>7. CASE SendRequest
    BY <2>7 DEF SendRequest, OwesNothing, RequestsFit, Places, PendingFits, Lease
  <2>8. CASE ReadTimeout
    BY <2>8 DEF ReadTimeout, leaseVars, serverVars, Unread, TInv, OwesNothing, Quiet,
       Has, Lease
  <2>9. CASE ReadDisconnected
    BY <2>9 DEF ReadDisconnected, leaseVars, serverVars, Unread, OwesNothing, Open,
       Lease
  <2>10. CASE ReceiveFrame
    BY <2>10 DEF ReceiveFrame, leaseVars, serverVars, Unread, TInv, OwesNothing, Quiet,
       Open, Has, Down, Waiting, Places, PendingFits, Lease
  <2>11. CASE CopyEnd
    BY <2>11 DEF CopyEnd, leaseVars, serverVars, Unread, TInv, OwesNothing, Quiet, Open,
       Has, Places, Lease
  <2>12. CASE ReturnFrame
    <3>1. CASE Send(Release)
      <4>1. ~Has("Request") => ~Has("Request")'
        BY <3>1, Packets, HasAppend DEF Send, Release, Packet, TInv, Types, UpTypes
      <4>2. QED
        BY <2>12, <4>1 DEF ReturnFrame, Unread, serverVars, leaseVars, clientVars, Open,
           Quiet, TInv, OwesNothing
    <3>2. CASE UNCHANGED up
      BY <2>12, <3>2 DEF ReturnFrame, Unread, serverVars, leaseVars, Quiet, Has, TInv,
         OwesNothing
    <3>3. QED
      BY <2>12, <3>1, <3>2 DEF ReturnFrame
  <2>13. QED
    BY <1>1, <2>1, <2>2, <2>3, <2>4, <2>5, <2>6, <2>7, <2>8, <2>9, <2>10, <2>11, <2>12
       DEF Client
<1>2. CASE Server
  <2>1. CASE PublishEnd
    <3>1. PICK events \in MayDefer : reply_if_ready(events) /\ deferred' = events
      BY <2>1 DEF PublishEnd
    <3>2. CASE NoReply(events)
      BY <2>1, <3>1, <3>2, EndFacts DEF NoReply, leaseVars, readerVars, clientVars,
         TInv, OwesNothing, Quiet, Open, Has, PendingFits, Lease
    <3>3. CASE ReplySent(events)
      BY <2>1, <3>1, <3>3, EndFacts DEF ReplySent, Answer, LeaseDue, Leased, readerVars,
         clientVars, TInv, OwesNothing, Quiet, Open, RequestsFit, Places, PendingFits,
         Lease
    <3>4. CASE ReplyBlocked(events)
      BY <2>1, <3>1, <3>4, EndFacts DEF ReplyBlocked, Answer, LeaseDue, readerVars,
         clientVars, TInv, OwesNothing, Quiet, Open, RequestsFit, Places, PendingFits,
         Lease
    <3>5. CASE ReplyFailed(events)
      BY <2>1, <3>1, <3>5, EndFacts DEF ReplyFailed, slotVars, clientVars, TInv,
         OwesNothing, Open, Places, PendingFits, Lease
    <3>6. QED
      BY <3>1, <3>2, <3>3, <3>4, <3>5 DEF reply_if_ready
  <2>2. CASE PollBegin
    BY <2>2 DEF PollBegin, readerVars, TInv, OwesNothing, Quiet, Open, Has, Lease
  <2>3. CASE PollHangup
    BY <2>3 DEF PollHangup, clientVars, TInv, OwesNothing, Open, RequestsFit, Places,
       PendingFits, Lease
  <2>4. CASE PollReceive
    <3>1. /\ up # <<>> /\ up' = Tail(up)
          /\ UNCHANGED <<client, frame_reply_pending, down, reading, reader, handle_state>>
          /\ Head(up).op # "Request" => request_pending' = request_pending
      BY <2>4, Receives DEF readerVars, clientVars
    <3>2. up \in Seq(Message)
      BY DEF TInv, Types, UpTypes
    <3>3. /\ 1 \in 1..Len(up) /\ Head(up) = up[1]
          /\ \A k \in 1..Len(up') : k + 1 \in 1..Len(up) /\ up'[k] = up[k + 1]
      BY <3>1, <3>2
    <3>4. ~Has("Request") => ~Has("Request")' /\ Head(up).op # "Request"
      BY <3>3 DEF Has
    <3>5. QED
      BY <3>1, <3>4 DEF TInv, OwesNothing, Quiet, Open
  <2>5. CASE PollOverflow
    BY <2>5 DEF PollOverflow, Hangup, OwesNothing, Open, Down, Waiting, RequestsFit,
       Places, PendingFits, Lease
  <2>6. CASE PollReply
    <3>1. PICK events \in MayDefer : reply_if_ready(events) /\ EndPoll(events)
      BY <2>6 DEF PollReply
    <3>2. CASE NoReply(events)
      BY <2>6, <3>1, <3>2 DEF EndPoll, NoReply, leaseVars, readerVars, clientVars, TInv,
         OwesNothing, Quiet, Open, Has, Down, Waiting, RequestsFit, Places, PendingFits,
         Lease
    <3>3. CASE ReplySent(events)
      BY <2>6, <3>1, <3>3 DEF EndPoll, ReplySent, Answer, LeaseDue, readerVars,
         clientVars, TInv, OwesNothing, Quiet, Open, Has, Down, Waiting, RequestsFit,
         Places, PendingFits, Lease
    <3>4. CASE ReplyBlocked(events)
      BY <2>6, <3>1, <3>4 DEF EndPoll, ReplyBlocked, Answer, LeaseDue, readerVars,
         clientVars, TInv, OwesNothing, Quiet, Open, Has, Down, Waiting, RequestsFit,
         Places, PendingFits, Lease
    <3>5. CASE ReplyFailed(events)
      BY <2>6, <3>1, <3>5 DEF ReplyFailed, Hangup, OwesNothing, Open, Has, Down,
         Waiting, RequestsFit, Places, PendingFits, Lease
    <3>6. QED
      BY <3>1, <3>2, <3>3, <3>4, <3>5 DEF reply_if_ready
  <2>7. CASE PublishBegin \/ Deliver
    BY <2>7 DEF PublishBegin, Deliver, leaseVars, readerVars, clientVars, OwesNothing,
       Open, Quiet, Has, TInv
  <2>8. QED
    BY <1>2, <2>1, <2>2, <2>3, <2>4, <2>5, <2>6, <2>7 DEF Server
<1>3. CASE UNCHANGED vars
  BY <1>3 DEF leaseVars, readerVars, clientVars, vars, OwesNothing, Open, Quiet, Has,
     TInv
<1>4. QED
  BY <1>1, <1>2, <1>3 DEF Next

LEMMA HoldingStep == ASSUME TInv, [Next]_vars PROVE Holding'
<1>1. CASE Client
  <2>1. CASE Connect
    BY <2>1 DEF Connect, Holding, Places, PendingFits, Lease
  <2>2. CASE ConnectTimeout
    BY <2>2 DEF ConnectTimeout, Holding, Open, Places, PendingFits, Lease
  <2>3. CASE Close
    BY <2>3 DEF Close, Holding, Open, Places, PendingFits, Lease
  <2>4. CASE Tap
    BY <2>4 DEF Tap, Send, Packet, leaseVars, readerVars, serverVars, TInv, Holding,
       HoldsLease, Has, Down, Waiting, ReleasesFit, Places, PendingFits, Lease
  <2>5. CASE ReadFrame
    BY <2>5 DEF ReadFrame, leaseVars, serverVars, Unread, TInv, Holding, HoldsLease,
       Open, Has, Places, PendingFits, Lease
  <2>6. CASE ResendRelease
    BY <2>6 DEF ResendRelease, Holding, Has, Down, Waiting, ReleasesFit, Places,
       PendingFits, Lease
  <2>7. CASE SendRequest
    BY <2>7 DEF SendRequest, TInv, Holding, Down, Waiting, ReleasesFit, Places,
       PendingFits, Lease
  <2>8. CASE ReadTimeout
    BY <2>8 DEF ReadTimeout, leaseVars, serverVars, Unread, TInv, Holding, HoldsLease,
       Has, Places, PendingFits, Lease
  <2>9. CASE ReadDisconnected
    BY <2>9 DEF ReadDisconnected, leaseVars, serverVars, Unread, Holding, Open, Places,
       PendingFits, Lease
  <2>10. CASE ReceiveFrame
    BY <2>10 DEF ReceiveFrame, leaseVars, serverVars, Unread, TInv, Holding, HoldsLease,
       Open, Has, Down, Waiting, ReleasesFit, Places, PendingFits, Lease
  <2>11. CASE CopyEnd
    BY <2>11 DEF CopyEnd, leaseVars, serverVars, Unread, TInv, Holding, HoldsLease,
       Open, Has, Places, PendingFits, Lease
  <2>12. CASE ReturnFrame
    BY <2>12 DEF ReturnFrame, leaseVars, serverVars, Unread, TInv, Holding, HoldsLease,
       Has, Down, Waiting, ReleasesFit, Places, PendingFits, Lease
  <2>13. QED
    BY <1>1, <2>1, <2>2, <2>3, <2>4, <2>5, <2>6, <2>7, <2>8, <2>9, <2>10, <2>11, <2>12
       DEF Client
<1>2. CASE Server
  <2>1. CASE PublishEnd
    <3>1. PICK events \in MayDefer : reply_if_ready(events) /\ deferred' = events
      BY <2>1 DEF PublishEnd
    <3>2. CASE NoReply(events)
      BY <2>1, <3>1, <3>2, EndFacts DEF NoReply, leaseVars, readerVars, clientVars,
         TInv, Holding, HoldsLease, Open, Has, ReleasesFit, Places, PendingFits, Lease
    <3>3. CASE ReplySent(events)
      BY <2>1, <3>1, <3>3, EndFacts DEF ReplySent, Answer, LeaseDue, Leased, readerVars,
         clientVars, TInv, Holding, OwesNothing, Quiet, Open, Down, Waiting,
         ReleasesFit, Places, PendingFits, Lease
    <3>4. CASE ReplyBlocked(events)
      BY <2>1, <3>1, <3>4, EndFacts DEF ReplyBlocked, Answer, LeaseDue, readerVars,
         clientVars, TInv, Holding, OwesNothing, Quiet, Open, Down, Waiting,
         ReleasesFit, Places, PendingFits, Lease
    <3>5. CASE ReplyFailed(events)
      BY <2>1, <3>1, <3>5, EndFacts DEF ReplyFailed, clientVars, TInv, Holding, Open,
         Waiting, ReleasesFit, Places, PendingFits, Lease
    <3>6. QED
      BY <3>1, <3>2, <3>3, <3>4, <3>5 DEF reply_if_ready
  <2>2. CASE PollBegin
    BY <2>2 DEF PollBegin, readerVars, TInv, Holding, HoldsLease, Open, Has, Places,
       PendingFits, Lease
  <2>3. CASE PollHangup
    BY <2>3 DEF PollHangup, clientVars, TInv, Holding, Open, Down, Waiting, ReleasesFit,
       Places, PendingFits, Lease
  <2>4. CASE PollReceive
    <3>1. Has(Head(up).op) /\ \A op : Has(op) <=> Has(op)' \/ Head(up).op = op
      BY <2>4, Receives, HasTail DEF TInv, Types, UpTypes
    <3>2. UNCHANGED <<client, handle_state, reader, reading, release_pending, copy, last_sequence,
            down>>
      BY <2>4, Receives DEF readerVars, clientVars
    <3>3. ASSUME Open, release_pending \/ reader = "copy"
          PROVE  HoldsLease /\ ~Has("Release") /\ Head(up).op = "Tap"
      <4>1. Quiet /\ HoldsLease /\ ~Has("Release")
        BY <3>3 DEF TInv, Places, OwesNothing, Holding
      <4>2. QED
        BY <2>4, <3>1, <4>1, Receives DEF Quiet
    <3>4. QED
      BY <2>4, <3>1, <3>2, <3>3, Receives DEF Open, Holding, HoldsLease
  <2>5. CASE PollOverflow
    BY <2>5 DEF PollOverflow, Hangup, Holding, Open, Has, Down, Waiting, ReleasesFit,
       Places, PendingFits, Lease
  <2>6. CASE PollReply
    <3>1. PICK events \in MayDefer : reply_if_ready(events) /\ EndPoll(events)
      BY <2>6 DEF PollReply
    <3>2. CASE NoReply(events)
      BY <2>6, <3>1, <3>2 DEF EndPoll, NoReply, leaseVars, readerVars, clientVars, TInv,
         Holding, HoldsLease, Open, Has, Down, Waiting, ReleasesFit, Places,
         PendingFits, Lease
    <3>3. CASE ReplySent(events)
      BY <2>6, <3>1, <3>3 DEF EndPoll, ReplySent, Answer, LeaseDue, readerVars,
         clientVars, TInv, Holding, OwesNothing, Quiet, Open, Has, Down, Waiting,
         ReleasesFit, Places, PendingFits, Lease
    <3>4. CASE ReplyBlocked(events)
      BY <2>6, <3>1, <3>4 DEF EndPoll, ReplyBlocked, Answer, LeaseDue, readerVars,
         clientVars, TInv, Holding, OwesNothing, Quiet, Open, Has, Down, Waiting,
         ReleasesFit, Places, PendingFits, Lease
    <3>5. CASE ReplyFailed(events)
      BY <2>6, <3>1, <3>5 DEF ReplyFailed, Hangup, Holding, Quiet, Open, Has, Down,
         Waiting, ReleasesFit, Places, PendingFits, Lease
    <3>6. QED
      BY <3>1, <3>2, <3>3, <3>4, <3>5 DEF reply_if_ready
  <2>7. CASE PublishBegin \/ Deliver
    BY <2>7 DEF PublishBegin, Deliver, leaseVars, readerVars, clientVars, Holding, Open,
       HoldsLease, Has, TInv
  <2>8. QED
    BY <1>2, <2>1, <2>2, <2>3, <2>4, <2>5, <2>6, <2>7 DEF Server
<1>3. CASE UNCHANGED vars
  BY <1>3 DEF leaseVars, readerVars, clientVars, vars, Holding, Open, HoldsLease, Has,
     TInv
<1>4. QED
  BY <1>1, <1>2, <1>3 DEF Next

LEMMA ReturnedStep == ASSUME TInv, [Next]_vars PROVE Returned'
<1>1. CASE Client
  <2>1. CASE Connect
    BY <2>1 DEF Connect, Returned, Open, PendingFits, Lease
  <2>2. CASE ConnectTimeout
    BY <2>2 DEF ConnectTimeout, Returned, Open, PendingFits, Lease
  <2>3. CASE Close
    BY <2>3 DEF Close, Returned, Open, PendingFits, Lease
  <2>4. CASE Tap
    BY <2>4 DEF Tap, Send, leaseVars, readerVars, serverVars, TInv, Returned,
       HoldsLease, Has, ReleasesFit, Places, PendingFits, Lease
  <2>5. CASE ResendRelease
    BY <2>5 DEF ResendRelease, Send, Packet, Release, leaseVars, serverVars, Unread,
       TInv, Returned, HoldsLease, Holding, Quiet, Has, ReleasesFit, Places,
       PendingFits, Lease
  <2>6. CASE SendRequest
    BY <2>6 DEF SendRequest, Returned, Has, ReleasesFit, Places, PendingFits, Lease
  <2>7. CASE ReceiveFrame
    BY <2>7 DEF ReceiveFrame, TInv, Returned, Places, PendingFits, Lease
  <2>8. CASE CopyEnd
    BY <2>8 DEF CopyEnd, Returned, PendingFits, Lease
  <2>9. CASE ReturnFrame
    <3>1. CASE Send(Release) /\ ~release_pending'
      <4>1. Has("Release")'
        BY <3>1, Packets, HasAppend DEF Send, Release, Packet, TInv, Types, UpTypes
      <4>2. Open /\ release_pending /\ UNCHANGED <<leased_slot, leased_sequence, copy>>
        BY <2>9 DEF ReturnFrame, Unread, serverVars, leaseVars, TInv, Places
      <4>3. QED
        BY <4>1, <4>2 DEF TInv, Holding, Returned, HoldsLease
    <3>2. CASE UNCHANGED release_pending
      BY <2>9, <3>2 DEF ReturnFrame, TInv, Places, Returned
    <3>3. QED
      BY <2>9, <3>1, <3>2 DEF ReturnFrame
  <2>10. CASE ReadFrame \/ ReadTimeout \/ ReadDisconnected
    BY <2>10 DEF ReadFrame, ReadTimeout, ReadDisconnected, leaseVars, serverVars,
       Unread, Returned, Open, HoldsLease, Has, TInv
  <2>11. QED
    BY <1>1, <2>1, <2>2, <2>3, <2>4, <2>5, <2>6, <2>7, <2>8, <2>9, <2>10 DEF Client
<1>2. CASE Server
  <2>1. CASE PublishEnd
    <3>1. PICK events \in MayDefer : reply_if_ready(events) /\ deferred' = events
      BY <2>1 DEF PublishEnd
    <3>2. CASE NoReply(events)
      BY <2>1, <3>1, <3>2, EndFacts DEF NoReply, leaseVars, readerVars, clientVars,
         TInv, Returned, HoldsLease, Open, Has, Places, PendingFits, Lease
    <3>3. CASE ReplySent(events)
      BY <2>1, <3>1, <3>3, EndFacts DEF ReplySent, Answer, LeaseDue, readerVars,
         clientVars, TInv, Returned, OwesNothing, Quiet, Open, Has, ReleasesFit, Places,
         PendingFits, Lease
    <3>4. CASE ReplyBlocked(events)
      BY <2>1, <3>1, <3>4, EndFacts DEF ReplyBlocked, Answer, LeaseDue, readerVars,
         clientVars, TInv, Returned, OwesNothing, Quiet, Open, Has, ReleasesFit, Places,
         PendingFits, Lease
    <3>5. CASE ReplyFailed(events)
      BY <2>1, <3>1, <3>5, EndFacts DEF ReplyFailed, clientVars, TInv, Returned, Open,
         ReleasesFit, Places, PendingFits, Lease
    <3>6. QED
      BY <3>1, <3>2, <3>3, <3>4, <3>5 DEF reply_if_ready
  <2>2. CASE PollBegin
    BY <2>2 DEF PollBegin, readerVars, TInv, Returned, HoldsLease, Open, Has,
       PendingFits, Lease
  <2>3. CASE PollHangup
    BY <2>3 DEF PollHangup, clientVars, TInv, Returned, Open, Has, ReleasesFit, Places,
       PendingFits, Lease
  <2>4. CASE PollReceive
    <3>1. Has(Head(up).op) /\ \A op : Has(op) <=> Has(op)' \/ Head(up).op = op
      BY <2>4, Receives, HasTail DEF TInv, Types, UpTypes
    <3>2. UNCHANGED <<client, handle_state, reader, reading, release_pending, copy, last_sequence,
            down>>
      BY <2>4, Receives DEF readerVars, clientVars
    <3>3. ASSUME Open, ~reading PROVE Head(up).op # "Request"
      BY <3>1, <3>3 DEF TInv, OwesNothing, Quiet
    <3>4. QED
      BY <2>4, <3>1, <3>2, <3>3, Receives DEF Open, TInv, Returned, HoldsLease
  <2>5. CASE PollOverflow
    BY <2>5 DEF PollOverflow, Hangup, Returned, Quiet, Open, Has, ReleasesFit, Places,
       PendingFits, Lease
  <2>6. CASE PollReply
    <3>1. PICK events \in MayDefer : reply_if_ready(events) /\ EndPoll(events)
      BY <2>6 DEF PollReply
    <3>2. CASE NoReply(events)
      BY <2>6, <3>1, <3>2 DEF EndPoll, NoReply, leaseVars, readerVars, clientVars, TInv,
         Returned, HoldsLease, Quiet, Open, Has, ReleasesFit, Places, PendingFits, Lease
    <3>3. CASE ReplySent(events)
      BY <2>6, <3>1, <3>3 DEF EndPoll, ReplySent, Answer, LeaseDue, readerVars,
         clientVars, TInv, Returned, Holding, OwesNothing, Quiet, Open, Has,
         ReleasesFit, Places, PendingFits, Lease
    <3>4. CASE ReplyBlocked(events)
      BY <2>6, <3>1, <3>4 DEF EndPoll, ReplyBlocked, Answer, LeaseDue, readerVars,
         clientVars, TInv, Returned, Holding, OwesNothing, Quiet, Open, Has,
         ReleasesFit, Places, PendingFits, Lease
    <3>5. CASE ReplyFailed(events)
      BY <2>6, <3>1, <3>5 DEF ReplyFailed, Hangup, Returned, OwesNothing, Quiet, Open,
         Has, ReleasesFit, Places, PendingFits, Lease
    <3>6. QED
      BY <3>1, <3>2, <3>3, <3>4, <3>5 DEF reply_if_ready
  <2>7. CASE PublishBegin \/ Deliver
    BY <2>7 DEF PublishBegin, Deliver, leaseVars, readerVars, clientVars, Returned,
       Open, HoldsLease, Has, TInv
  <2>8. QED
    BY <1>2, <2>1, <2>2, <2>3, <2>4, <2>5, <2>6, <2>7 DEF Server
<1>3. CASE UNCHANGED vars
  BY <1>3 DEF leaseVars, readerVars, clientVars, vars, Returned, Open, HoldsLease, Has,
     TInv
<1>4. QED
  BY <1>1, <1>2, <1>3 DEF Next

LEMMA WaitingStep == ASSUME TInv, [Next]_vars PROVE Waiting'
<1>1. CASE Client
  <2>1. CASE Connect
    BY <2>1 DEF Connect, Waiting, Places, PendingFits, Lease
  <2>2. CASE ConnectTimeout
    BY <2>2 DEF ConnectTimeout, Waiting, Open, Places, PendingFits, Lease
  <2>3. CASE Close
    BY <2>3 DEF Close, Waiting, Open, Places, PendingFits, Lease
  <2>4. CASE Tap
    BY <2>4 DEF Tap, Send, Packet, leaseVars, readerVars, serverVars, TInv, Waiting,
       Quiet, Has, Down, Places, PendingFits, Lease
  <2>5. CASE ReadFrame
    BY <2>5 DEF ReadFrame, leaseVars, serverVars, Unread, TInv, Waiting, Open, Has,
       Places, PendingFits, Lease
  <2>6. CASE ResendRelease
    BY <2>6 DEF ResendRelease, TInv, Waiting, Returned, Quiet, Has, Down, Places,
       PendingFits, Lease
  <2>7. CASE SendRequest
    BY <2>7 DEF SendRequest, Send, Packet, leaseVars, serverVars, Unread, TInv, Waiting,
       OwesNothing, Quiet, Has, Down, Places, PendingFits, Lease
  <2>8. CASE ReadTimeout
    BY <2>8 DEF ReadTimeout, leaseVars, serverVars, Unread, TInv, Waiting, Has, Places,
       PendingFits, Lease
  <2>9. CASE ReadDisconnected
    BY <2>9 DEF ReadDisconnected, leaseVars, serverVars, Unread, Waiting, Open, Places,
       PendingFits, Lease
  <2>10. CASE ReceiveFrame
    BY <2>10, Taken DEF Waiting
  <2>11. CASE CopyEnd
    BY <2>11 DEF CopyEnd, Waiting, Places, PendingFits, Lease
  <2>12. CASE ReturnFrame
    BY <2>12 DEF ReturnFrame, TInv, Waiting, Returned, Quiet, Has, Down, Places,
       PendingFits, Lease
  <2>13. QED
    BY <1>1, <2>1, <2>2, <2>3, <2>4, <2>5, <2>6, <2>7, <2>8, <2>9, <2>10, <2>11, <2>12
       DEF Client
<1>2. CASE Server
  <2>1. CASE PublishEnd
    <3>1. CASE Silent
      BY <2>1, <3>1, Replies DEF Silent, readerVars, clientVars, TInv, Waiting, Open,
         Has
    <3>2. CASE Dropped
      BY <3>2 DEF Dropped, Waiting, Open
    <3>3. CASE Answered
      <4>1. Open' => Open
        BY <2>1, <3>3, Replies DEF Answered, clientVars, Open
      <4>2. ASSUME Open PROVE ~Has("Request")' /\ ~Has("Release")' /\ down = <<>> /\
                     last_sequence < leased_sequence'
        BY <3>3, <4>2, AsksFor DEF Answered, Has
      <4>3. Open /\ ~frame_reply_pending' => down' # <<>>
        BY <3>3 DEF Answered
      <4>4. UNCHANGED <<last_sequence, reading, reader>>
        BY <2>1, Replies DEF readerVars
      <4>5. QED
        BY <3>3, <4>1, <4>2, <4>3, <4>4 DEF Answered, Waiting, Has
    <3>4. QED
      BY <2>1, <3>1, <3>2, <3>3, Replies
  <2>2. CASE PollBegin
    BY <2>2 DEF PollBegin, readerVars, TInv, Waiting, Open, Has, Places, PendingFits,
       Lease
  <2>3. CASE PollHangup
    BY <2>3 DEF PollHangup, clientVars, TInv, Waiting, Open, Has, Down, Places,
       PendingFits, Lease
  <2>4. CASE PollReceive
    <3>1. Has(Head(up).op) /\ \A op : Has(op) <=> Has(op)' \/ Head(up).op = op
      BY <2>4, Receives, HasTail DEF TInv, Types, UpTypes
    <3>2. UNCHANGED <<client, handle_state, reader, reading, release_pending, copy, last_sequence,
            down>>
      BY <2>4, Receives DEF readerVars, clientVars
    <3>3. UNCHANGED frame_reply_pending /\ up' = Tail(up) /\ up # <<>>
      BY <2>4, Receives
    <3>4. /\ Head(up) = up[1] /\ 1 \in 1..Len(up)
          /\ \A k \in 1..Len(up') : k + 1 \in 1..Len(up) /\ up'[k] = up[k + 1]
      BY <3>3
    <3>5. CASE /\ Head(up).op = "Release" /\ leased_slot' = NoSlot
               /\ UNCHANGED <<request_pending, request_after>>
      <4>1. Has("Release")
        BY <3>1, <3>5
      <4>2. Open /\ reading /\ reader # "copy" => down = <<>>
        BY <4>1 DEF TInv, Waiting
      <4>3. Open /\ reading /\ reader # "copy" =>
               \A k \in 1..Len(up') : up'[k].op = "Request" => up'[k].seq = last_sequence
        BY <3>4 DEF TInv, Waiting
      <4>4. leased_slot' = NoSlot /\ UNCHANGED <<request_pending, request_after,
              frame_reply_pending>>
        BY <3>3, <3>5
      <4>5. Open /\ reading /\ reader # "copy" =>
               /\ request_pending => request_after = last_sequence
               /\ ~frame_reply_pending
        BY <4>1, AsksFor
      <4>6. QED
        BY <3>2, <4>2, <4>3, <4>4, <4>5 DEF Open, Waiting
    <3>6. CASE /\ Head(up).op = "Request" /\ request_after' = Head(up).seq /\ leased_slot = NoSlot
               /\ UNCHANGED <<leased_slot, leased_sequence>> /\ ~frame_reply_pending
      BY <3>2, <3>3, <3>6 DEF Open, TInv, Waiting
    <3>7. CASE /\ Head(up).op = "Tap"
               /\ UNCHANGED <<leased_slot, leased_sequence, request_pending, request_after>>
      BY <3>1, <3>2, <3>3, <3>7 DEF Open, TInv, Waiting
    <3>8. QED
      BY <2>4, <3>5, <3>6, <3>7, Receives
  <2>5. CASE PollOverflow
    BY <2>5 DEF PollOverflow, Hangup, Waiting, Returned, Quiet, Open, Has, Down, Places,
       PendingFits, Lease
  <2>6. CASE PollReply
    <3>1. CASE Silent
      BY <2>6, <3>1, Replies DEF Silent, readerVars, clientVars, TInv, Waiting, Open,
         Has
    <3>2. CASE Dropped
      BY <3>2 DEF Dropped, Waiting, Open
    <3>3. CASE Answered
      <4>1. Open' => Open
        BY <2>6, <3>3, Replies DEF Answered, clientVars, Open
      <4>2. ASSUME Open PROVE ~Has("Request")' /\ ~Has("Release")' /\ down = <<>> /\
                     last_sequence < leased_sequence'
        BY <3>3, <4>2, AsksFor DEF Answered, Has
      <4>3. Open /\ ~frame_reply_pending' => down' # <<>>
        BY <3>3 DEF Answered
      <4>4. UNCHANGED <<last_sequence, reading, reader>>
        BY <2>6, Replies DEF readerVars
      <4>5. QED
        BY <3>3, <4>1, <4>2, <4>3, <4>4 DEF Answered, Waiting, Has
    <3>4. QED
      BY <2>6, <3>1, <3>2, <3>3, Replies
  <2>7. CASE PublishBegin \/ Deliver
    BY <2>7 DEF PublishBegin, Deliver, slotVars, leaseVars, pollVars, readerVars,
       clientVars, hostVars, serverVars, Unread, vars, Waiting, Open, Has, TInv
  <2>8. QED
    BY <1>2, <2>1, <2>2, <2>3, <2>4, <2>5, <2>6, <2>7 DEF Server
<1>3. CASE UNCHANGED vars
  BY <1>3 DEF leaseVars, readerVars, clientVars, vars, Waiting, Open, Has, TInv
<1>4. QED
  BY <1>1, <1>2, <1>3 DEF Next

LEMMA CopiesStep == ASSUME TInv, [Next]_vars PROVE Copies'
<1>1. CASE Client
  <2>1. CASE Connect
    <3>1. /\ reader' = "idle" /\ last_sequence' = 0 /\ frame' = NoCopy
      BY <2>1 DEF Connect
    <3>2. QED
      BY <3>1 DEF Copies, NoCopy
  <2>2. CASE ConnectTimeout
    BY <2>2 DEF ConnectTimeout, readerVars, TInv, Copies, Filling, Places, PendingFits,
       Lease
  <2>3. CASE Close
    BY <2>3 DEF Close, readerVars, TInv, Copies, Filling, Places, PendingFits, Lease
  <2>4. CASE ReadFrame
    BY <2>4 DEF ReadFrame, TInv, Copies, Filling, Places, PendingFits, Lease
  <2>5. CASE ResendRelease
    BY <2>5 DEF ResendRelease, TInv, Copies, Quiet, Has, Down, Whole, Filling, Places,
       PendingFits, Lease
  <2>6. CASE SendRequest
    BY <2>6 DEF SendRequest, TInv, Copies, Has, Down, Whole, Filling, Places,
       PendingFits, Lease
  <2>7. CASE ReadTimeout
    BY <2>7 DEF ReadTimeout, TInv, Copies, Filling, Places, PendingFits, Lease
  <2>8. CASE ReadDisconnected
    <3>1. reader # "idle" /\ reader' = "idle" /\ UNCHANGED <<last_sequence, copy, frame>>
      BY <2>8 DEF ReadDisconnected
    <3>2. frame.seq \in Nat /\ copy.seq \in Nat /\ last_sequence \in Nat
      BY DEF TInv, Types, ClientTypes, Image
    <3>3. QED
      BY <3>1, <3>2 DEF TInv, Copies
  <2>9. CASE ReceiveFrame
    <3>1. Open => slots[Head(down).slot].lo = Head(down).seq
      <4>1. ASSUME Open PROVE Head(down).slot = leased_slot /\ Head(down).seq = leased_sequence
        BY <2>9, <4>1, Taken DEF Open, TInv, Down
      <4>2. Head(down).slot \in Slot /\ Head(down).slot # NoSlot
        BY <2>9, Taken DEF Slot, NoSlot
      <4>3. QED
        BY <4>1, <4>2 DEF TInv, Filling, Whole, Lease
    <3>2. Open' => Open
      BY <2>9, Taken DEF Open, serverVars, leaseVars
    <3>3. /\ reader = "wait" /\ reader' = "copy" /\ UNCHANGED <<last_sequence, frame>>
          /\ copy'.seq = Head(down).seq /\ copy'.lo = slots[Head(down).slot].lo
          /\ last_sequence < Head(down).seq
      BY <2>9, Taken
    <3>4. QED
      BY <3>1, <3>2, <3>3 DEF TInv, Copies
  <2>10. CASE CopyEnd
    <3>1. /\ reader = "copy" /\ reader' = "copied" /\ last_sequence' = copy.seq
          /\ copy' = [copy EXCEPT !.hi = slots[copy.slot].hi] /\ frame' = frame
      BY <2>10 DEF CopyEnd
    <3>2. Open' => Open
      BY <2>10 DEF CopyEnd, Unread, serverVars, leaseVars, clientVars, Open
    <3>3. copy \in Image /\ frame.seq \in Nat /\ last_sequence \in Nat /\ copy.seq \in Nat
      BY DEF TInv, Types, ClientTypes, Image
    <3>4. /\ copy'.lo = copy.lo /\ copy'.seq = copy.seq /\ copy'.hi = slots[copy.slot].hi
      BY <3>1
    <3>5. ASSUME Open PROVE slots[copy.slot].hi = copy.seq
      <4>1. copy.slot = leased_slot /\ copy.seq = leased_sequence /\ leased_slot # NoSlot
        BY <3>1, <3>5 DEF TInv, Holding, HoldsLease
      <4>2. leased_slot \in Slot
        BY <4>1 DEF TInv, Types, ServerTypes
      <4>3. QED
        BY <4>1, <4>2 DEF TInv, Filling, Whole, Lease
    <3>6. QED
      BY <3>1, <3>2, <3>3, <3>4, <3>5 DEF TInv, Copies
  <2>11. CASE ReturnFrame
    <3>1. /\ reader = "copied" /\ reader' = "idle" /\ Open /\ frame' = copy
          /\ UNCHANGED <<last_sequence, copy>>
      BY <2>11 DEF ReturnFrame
    <3>2. copy.seq \in Nat
      BY DEF TInv, Types, ClientTypes
    <3>3. QED
      BY <3>1, <3>2 DEF TInv, Copies
  <2>12. CASE Tap
    BY <2>12 DEF Tap, Send, readerVars, Copies, TInv
  <2>13. QED
    BY <1>1, <2>1, <2>2, <2>3, <2>4, <2>5, <2>6, <2>7, <2>8, <2>9, <2>10, <2>11, <2>12
       DEF Client
<1>2. CASE Server
  <2>1. CASE PublishEnd
    <3>1. PICK events \in MayDefer : reply_if_ready(events) /\ deferred' = events
      BY <2>1 DEF PublishEnd
    <3>2. CASE NoReply(events)
      BY <2>1, <3>1, <3>2, EndFacts DEF NoReply, leaseVars, readerVars, TInv, Copies,
         Open, Whole, Filling, Places, PendingFits, Lease
    <3>3. CASE ReplySent(events)
      BY <2>1, <3>1, <3>3, EndFacts DEF ReplySent, Answer, readerVars, TInv, Copies,
         Open, Has, Down, Whole, Filling, Places, PendingFits, Lease
    <3>4. CASE ReplyBlocked(events)
      BY <2>1, <3>1, <3>4, EndFacts DEF ReplyBlocked, Answer, readerVars, TInv, Copies,
         Open, Has, Down, Whole, Filling, Places, PendingFits, Lease
    <3>5. CASE ReplyFailed(events)
      BY <2>1, <3>1, <3>5, EndFacts DEF ReplyFailed, readerVars, TInv, Copies, Down,
         Whole, Filling, Places, PendingFits, Lease
    <3>6. QED
      BY <3>1, <3>2, <3>3, <3>4, <3>5 DEF reply_if_ready
  <2>2. CASE PollBegin
    BY <2>2 DEF PollBegin, readerVars, TInv, Copies, Open, Filling, Places, PendingFits,
       Lease
  <2>3. CASE PollHangup
    BY <2>3 DEF PollHangup, readerVars, TInv, Copies, Has, Down, Whole, Filling, Places,
       PendingFits, Lease
  <2>4. CASE PollOverflow
    BY <2>4 DEF PollOverflow, Hangup, EndPoll, readerVars, TInv, Copies, Quiet, Open,
       Has, Down, Whole, Filling, Places, PendingFits, Lease
  <2>5. CASE PollReply
    <3>1. PICK events \in MayDefer : reply_if_ready(events) /\ EndPoll(events)
      BY <2>5 DEF PollReply
    <3>2. CASE NoReply(events)
      BY <2>5, <3>1, <3>2 DEF EndPoll, NoReply, leaseVars, readerVars, TInv, Copies,
         Quiet, Open, Has, Down, Whole, Filling, Places, PendingFits, Lease
    <3>3. CASE ReplySent(events)
      BY <2>5, <3>1, <3>3 DEF EndPoll, ReplySent, Answer, readerVars, TInv, Copies,
         Holding, OwesNothing, Quiet, Open, Has, Down, Whole, Filling, Places,
         PendingFits, Lease
    <3>4. CASE ReplyBlocked(events)
      BY <2>5, <3>1, <3>4 DEF EndPoll, ReplyBlocked, Answer, readerVars, TInv, Copies,
         Holding, OwesNothing, Quiet, Open, Has, Down, Whole, Filling, Places,
         PendingFits, Lease
    <3>5. CASE ReplyFailed(events)
      BY <2>5, <3>1, <3>5 DEF EndPoll, ReplyFailed, readerVars, TInv, Copies,
         OwesNothing, Quiet, Open, Has, Down, Whole, Filling, Places, PendingFits, Lease
    <3>6. QED
      BY <3>1, <3>2, <3>3, <3>4, <3>5 DEF reply_if_ready
  <2>6. CASE PublishBegin \/ PollReceive \/ Deliver
    BY <2>6, Receives DEF PublishBegin, Deliver, leaseVars, readerVars, clientVars,
       Copies, Open, TInv
  <2>7. QED
    BY <1>2, <2>1, <2>2, <2>3, <2>4, <2>5, <2>6 DEF Server
<1>3. CASE UNCHANGED vars
  BY <1>3 DEF leaseVars, readerVars, clientVars, vars, Copies, Open, TInv
<1>4. QED
  BY <1>1, <1>2, <1>3 DEF Next

-----------------------------------------------------------------------------
(* Where the taps go.  A step adds one, moves the oldest of a queue behind  *)
(* the newest of the next, hands over a whole queue, or none of this.       *)

Same(new, old) ==
    \A k \in 1..Len(new) : new[k].kind = "Tap" => k \in 1..Len(old) /\ new[k] = old[k]

SameUp == \A k \in 1..Len(up') : up'[k].op = "Tap" => k \in 1..Len(up) /\ up'[k] = up[k]

Stay == UNCHANGED <<delivered, delivery, sent>> /\ Same(deferred', deferred) /\ SameUp

Tapped ==
    /\ UNCHANGED <<delivered, delivery, deferred>> /\ sent' = sent + 1
    /\ \A k \in 1..Len(up') : up'[k].op = "Tap" =>
          \/ k \in 1..Len(up) /\ up'[k] = up[k]
          \/ k = Len(up) + 1 /\ up'[k].seq = sent + 1

Moved ==
    /\ UNCHANGED <<delivered, delivery, sent>> /\ 1 \in 1..Len(up)
    /\ \A k \in 1..Len(up') : k + 1 \in 1..Len(up) /\ up'[k] = up[k + 1]
    /\ \A k \in 1..Len(deferred') : deferred'[k].kind = "Tap" =>
          \/ k \in 1..Len(deferred) /\ deferred'[k] = deferred[k]
          \/ k = Len(deferred) + 1 /\ up[1].op = "Tap" /\ deferred'[k].tap = up[1].seq

Handed ==
    /\ UNCHANGED <<delivered, sent>> /\ SameUp
    /\ Same(delivery', deferred) /\ deferred' = <<>>

Told ==
    /\ UNCHANGED <<deferred, up, sent>> /\ 1 \in 1..Len(delivery)
    /\ \A k \in 1..Len(delivery') : k + 1 \in 1..Len(delivery) /\ delivery'[k] = delivery[k + 1]
    /\ \A k \in 1..Len(delivered') :
          \/ k \in 1..Len(delivered) /\ delivered'[k] = delivered[k]
          \/ /\ k = Len(delivered) + 1
             /\ delivery[1].kind = "Tap" /\ delivered'[k] = delivery[1].tap

LEMMA SameFailure ==
    ASSUME NEW s \in Seq(Event), NEW kind \in {"Disconnect", "Overflow", "ProtocolError"}
    PROVE  Same(Append(s, Failure(kind)), s)
<1>1. Failure(kind) \in Event /\ Failure(kind).kind # "Tap"
  BY Events DEF Failure
<1>2. QED
  BY <1>1, AppendCases DEF Same

LEMMA SameSend ==
    ASSUME UpTypes, NEW p \in Message, p.op # "Tap", up' = Append(up, p) PROVE SameUp
BY DEF SameUp

LEMMA SameOrEmpty == ASSUME up' = up \/ up' = <<>> PROVE SameUp
<1>1. CASE up' = up
  BY DEF SameUp
<1>2. CASE up' = <<>>
  BY DEF SameUp
<1>3. QED
  BY <1>1, <1>2

LEMMA SameEvents == ASSUME NEW s PROVE Same(s, s)
BY DEF Same

LEMMA TapSteps ==
    ASSUME TInv, [Next]_vars PROVE Stay \/ Tapped \/ Moved \/ Handed \/ Told
<1> DEFINE Still == UNCHANGED <<delivered, delivery, deferred, sent>>
<1>1. CASE Client
  <2>1. CASE Tap
    <3>1. /\ up' = Append(up, Packet("Tap", sent + 1, 0)) /\ sent' = sent + 1
          /\ UNCHANGED <<delivered, delivery, deferred>>
      BY <2>1 DEF Tap, Send, serverVars, pollVars, hostVars
    <3>2. Packet("Tap", sent + 1, 0) \in Message /\ Packet("Tap", sent + 1, 0).seq = sent + 1
      BY Packets DEF Packet, TInv, Types
    <3>3. QED
      BY <3>1, <3>2, AppendCases DEF Tapped, TInv, Types, UpTypes
  <2>2. CASE ResendRelease \/ SendRequest \/ ReturnFrame
    <3>1. UNCHANGED <<delivered, delivery, deferred, sent>>
      BY <2>2 DEF ResendRelease, SendRequest, ReturnFrame, Unread, serverVars, pollVars,
         hostVars, clientVars
    <3>2. up' = up \/ up' = Append(up, Release) \/
            up' = Append(up, Packet("Request", last_sequence, 0))
      BY <2>2 DEF ResendRelease, SendRequest, ReturnFrame, Send
    <3>3. /\ Release \in Message /\ Release.op # "Tap"
          /\ Packet("Request", last_sequence, 0) \in Message
          /\ Packet("Request", last_sequence, 0).op # "Tap"
      BY Packets DEF Packet, Release, TInv, Types
    <3>4. SameUp
      BY <3>2, <3>3, SameSend, SameOrEmpty DEF TInv, Types
    <3>5. QED
      BY <3>1, <3>4, SameEvents DEF Stay
  <2>3. CASE Connect \/ ConnectTimeout \/ Close \/ ReadFrame \/ ReadTimeout \/ ReadDisconnected
             \/ ReceiveFrame \/ CopyEnd
    <3>1. UNCHANGED <<delivered, delivery, deferred, sent, up>>
      BY <2>3 DEF Connect, ConnectTimeout, Close, ReadFrame, ReadTimeout,
         ReadDisconnected, ReceiveFrame, CopyEnd, Unread, serverVars, pollVars,
         hostVars, clientVars
    <3>2. QED
      BY <3>1, SameEvents, SameOrEmpty DEF Stay
  <2>4. QED
    BY <1>1, <2>1, <2>2, <2>3 DEF Client
<1>2. CASE Server
  <2>1. CASE PublishBegin
    BY <2>1, BeginFacts, SameEvents, SameOrEmpty DEF Stay, hostVars, clientVars
  <2>2. CASE PublishEnd
    <3>1. deferred' \in MayDefer
      BY <2>2 DEF PublishEnd
    <3>2. Same(deferred', deferred)
      BY <3>1, SameEvents, SameFailure DEF MayDefer, TInv, Types, EventTypes
    <3>3. up' = up \/ up' = <<>>
      BY <2>2, Replies DEF Silent, Dropped, Answered
    <3>4. QED
      BY <2>2, EndFacts, <3>2, <3>3, SameOrEmpty DEF Stay, hostVars, clientVars
  <2>3. CASE PollBegin
    <3>1. (up' = up \/ up' = <<>>) /\ UNCHANGED <<delivered, delivery, deferred, sent>>
      BY <2>3 DEF PollBegin, hostVars
    <3>2. QED
      BY <3>1, SameEvents, SameOrEmpty DEF Stay
  <2>4. CASE PollHangup
    <3>1. /\ up' = <<>> /\ UNCHANGED <<delivered, delivery, sent>>
          /\ deferred' = Append(deferred, Failure("Disconnect"))
      BY <2>4 DEF PollHangup, Hangup, hostVars, pollVars, clientVars
    <3>2. Same(deferred', deferred)
      BY <3>1, SameFailure DEF TInv, Types, EventTypes
    <3>3. QED
      BY <3>1, <3>2, SameOrEmpty DEF Stay
  <2>5. CASE PollReceive
    <3>1. /\ up # <<>> /\ up' = Tail(up) /\ UNCHANGED <<delivered, delivery, sent>>
          /\ \/ deferred' = deferred
             \/ Head(up).op = "Tap" /\ deferred' = Append(deferred, TapEvent(Head(up).seq))
      BY <2>5, Receives DEF hostVars, clientVars
    <3>2. /\ Head(up) \in Message /\ Head(up) = up[1] /\ 1 \in 1..Len(up)
          /\ \A k \in 1..Len(up') : k + 1 \in 1..Len(up) /\ up'[k] = up[k + 1]
      BY <3>1 DEF TInv, Types, UpTypes
    <3>3. CASE deferred' = deferred
      BY <3>1, <3>3 DEF Moved
    <3>4. CASE Head(up).op = "Tap" /\ deferred' = Append(deferred, TapEvent(Head(up).seq))
      <4>1. TapEvent(Head(up).seq) \in Event /\ TapEvent(Head(up).seq).tap = Head(up).seq
        BY <3>2, Events DEF TapEvent, Message
      <4>2. \A k \in 1..Len(deferred') : \/ k \in 1..Len(deferred) /\ deferred'[k] = deferred[k]
                                         \/ /\ k = Len(deferred) + 1
                                            /\ deferred'[k] = TapEvent(Head(up).seq)
        BY <3>4
      <4>3. QED
        BY <3>1, <3>2, <3>4, <4>1, <4>2 DEF Moved
    <3>5. QED
      BY <3>1, <3>3, <3>4
  <2>6. CASE PollOverflow
    <3>1. /\ up' = <<>> /\ UNCHANGED <<delivered, sent>> /\ deferred' = <<>>
          /\ delivery' = Append(deferred, Failure("Overflow"))
      BY <2>6 DEF PollOverflow, Hangup, EndPoll, hostVars, clientVars
    <3>2. Same(delivery', deferred)
      BY <3>1, SameFailure DEF TInv, Types, EventTypes
    <3>3. QED
      BY <3>1, <3>2, SameOrEmpty DEF Handed
  <2>7. CASE PollReply
    <3>1. /\ UNCHANGED <<delivered, sent>> /\ deferred' = <<>> /\ delivery' \in MayDefer
      BY <2>7 DEF PollReply, EndPoll, hostVars, clientVars
    <3>2. Same(delivery', deferred)
      BY <3>1, SameEvents, SameFailure DEF MayDefer, TInv, Types, EventTypes
    <3>3. up' = up \/ up' = <<>>
      BY <2>7, Replies DEF Silent, Dropped, Answered
    <3>4. QED
      BY <3>1, <3>2, <3>3, SameOrEmpty DEF Handed
  <2>8. CASE Deliver
    <3>1. /\ delivery # <<>> /\ delivery' = Tail(delivery) /\ UNCHANGED <<deferred, up, sent>>
          /\ \/ delivered' = delivered
             \/ /\ Head(delivery).kind = "Tap"
                /\ delivered' = Append(delivered, Head(delivery).tap)
      BY <2>8 DEF Deliver, clientVars
    <3>2. /\ Head(delivery) \in Event /\ Head(delivery) = delivery[1] /\ 1 \in 1..Len(delivery)
          /\ \A k \in 1..Len(delivery') :
                k + 1 \in 1..Len(delivery) /\ delivery'[k] = delivery[k + 1]
      BY <3>1 DEF TInv, Types, EventTypes
    <3>3. CASE delivered' = delivered
      BY <3>1, <3>3 DEF Told
    <3>4. CASE Head(delivery).kind = "Tap" /\ delivered' = Append(delivered, Head(delivery).tap)
      <4>1. Head(delivery).tap \in Nat /\ delivered \in Seq(Nat)
        BY <3>2 DEF Event, TInv, Types, EventTypes
      <4>2. \A k \in 1..Len(delivered') : \/ k \in 1..Len(delivered) /\ delivered'[k] = delivered[k]
                                          \/ /\ k = Len(delivered) + 1
                                             /\ delivered'[k] = Head(delivery).tap
        BY <3>4
      <4>3. QED
        BY <3>1, <3>2, <3>4, <4>2 DEF Told
    <3>5. QED
      BY <3>1, <3>3, <3>4
  <2>9. QED
    BY <1>2, <2>1, <2>2, <2>3, <2>4, <2>5, <2>6, <2>7, <2>8 DEF Server
<1>3. CASE UNCHANGED vars
  <2>1. UNCHANGED <<delivered, delivery, deferred, sent, up>>
    BY <1>3 DEF vars, pollVars, hostVars, clientVars
  <2>2. QED
    BY <2>1, SameEvents, SameOrEmpty DEF Stay
<1>4. QED
  BY <1>1, <1>2, <1>3 DEF Next

(* Every tap queued is a number, none above the last sent. *)
LEMMA TapNumbers ==
    ASSUME TInv
    PROVE  /\ \A k \in 1..Len(delivered) : delivered[k] \in Nat
           /\ \A k \in 1..Len(delivery) : delivery[k].tap \in Nat
           /\ \A k \in 1..Len(deferred) : deferred[k].tap \in Nat
           /\ \A k \in 1..Len(up) : up[k].seq \in Nat
           /\ sent \in Nat
           /\ Len(delivered) \in Nat /\ Len(delivery) \in Nat /\ Len(deferred) \in Nat /\
                Len(up) \in Nat
<1>1. /\ \A k \in 1..Len(delivered) : delivered[k] \in Nat
      /\ \A k \in 1..Len(delivery) : delivery[k] \in Event
      /\ \A k \in 1..Len(deferred) : deferred[k] \in Event
      /\ \A k \in 1..Len(up) : up[k] \in Message
      /\ sent \in Nat
  BY DEF TInv, Types, EventTypes, UpTypes, ClientTypes
<1>2. Len(delivered) \in Nat /\ Len(delivery) \in Nat /\ Len(deferred) \in Nat /\ Len(up) \in Nat
  OBVIOUS
<1>3. QED
  BY <1>1, <1>2 DEF Event, Message

LEMMA AscendingStep == ASSUME TInv, [Next]_vars PROVE Ascending'
<1>1. CASE Stay
  <2>1. DeliveredIncreasing'
    BY <1>1 DEF Stay, TInv, Ascending, DeliveredIncreasing
  <2>2. Increasing(delivery')
    BY <1>1 DEF Stay, TInv, Ascending
  <2>3. Increasing(deferred')
    BY <1>1 DEF Stay, Same, TInv, Ascending, Increasing
  <2>4. UpIncreasing'
    BY <1>1, TapNumbers DEF Stay, Same, SameUp, TInv, Ascending, UpIncreasing
  <2>5. DeliveredBefore(delivery)'
    BY <1>1 DEF Stay, TInv, Ascending, DeliveredBefore
  <2>6. DeliveredBefore(deferred)'
    BY <1>1 DEF Stay, Same, SameUp, TInv, Ascending, DeliveredBefore
  <2>7. DeliveredBeforeUp'
    BY <1>1 DEF Stay, Same, SameUp, TInv, Ascending, DeliveredBeforeUp
  <2>8. Before(delivery', deferred')
    BY <1>1, TapNumbers DEF Stay, Same, SameUp, TInv, Ascending, Before
  <2>9. BeforeUp(delivery)'
    BY <1>1 DEF Stay, Same, SameUp, TInv, Ascending, BeforeUp
  <2>10. BeforeUp(deferred)'
    BY <1>1, TapNumbers DEF Stay, Same, SameUp, TInv, Ascending, BeforeUp
  <2>11. QED
    BY <2>1, <2>2, <2>3, <2>4, <2>5, <2>6, <2>7, <2>8, <2>9, <2>10 DEF Ascending
<1>2. CASE Tapped
  <2>1. DeliveredIncreasing'
    BY <1>2 DEF Tapped, TInv, Ascending, DeliveredIncreasing
  <2>2. Increasing(delivery')
    BY <1>2 DEF Tapped, TInv, Ascending
  <2>3. Increasing(deferred')
    BY <1>2 DEF Tapped, TInv, Ascending
  <2>4. UpIncreasing'
    <3>1. ASSUME NEW j \in 1..Len(up'), NEW k \in 1..Len(up'), up'[j].op = "Tap",
                 up'[k].op = "Tap", j < k
          PROVE  up'[j].seq < up'[k].seq
      <4>1. (k \in 1..Len(up) /\ up'[k] = up[k]) \/ (k = Len(up) + 1 /\ up'[k].seq = sent + 1)
        BY <1>2, <3>1 DEF Tapped
      <4>2. j \in 1..Len(up) /\ up'[j] = up[j]
        BY <1>2, <3>1, <4>1 DEF Tapped
      <4>3. up[j].seq <= sent /\ up[j].seq \in Nat /\ sent \in Nat
        BY <3>1, <4>2, TapNumbers DEF TInv, NotAhead
      <4>4. QED
        BY <3>1, <4>1, <4>2, <4>3 DEF TInv, Ascending, UpIncreasing
    <3>2. QED
      BY <3>1 DEF UpIncreasing
  <2>5. DeliveredBefore(delivery)'
    BY <1>2 DEF Tapped, TInv, Ascending, DeliveredBefore
  <2>6. DeliveredBefore(deferred)'
    BY <1>2 DEF Tapped, TInv, Ascending, DeliveredBefore
  <2>7. DeliveredBeforeUp'
    <3> SUFFICES ASSUME NEW j \in 1..Len(delivered'), NEW k \in 1..Len(up'), up'[k].op = "Tap"
                 PROVE  delivered'[j] < up'[k].seq
      BY DEF DeliveredBeforeUp
    <3>1. (k \in 1..Len(up) /\ up'[k] = up[k]) \/ (k = Len(up) + 1 /\ up'[k].seq = sent + 1)
      BY <1>2 DEF Tapped
    <3>2. /\ delivered' = delivered /\ delivered[j] <= sent
          /\ delivered[j] \in Nat /\ sent \in Nat
      BY <1>2, TapNumbers DEF Tapped, TInv, NotAhead
    <3>3. CASE k \in 1..Len(up) /\ up'[k] = up[k]
      BY <3>2, <3>3 DEF TInv, Ascending, DeliveredBeforeUp
    <3>4. CASE k = Len(up) + 1 /\ up'[k].seq = sent + 1
      BY <3>2, <3>4
    <3>5. QED
      BY <3>1, <3>3, <3>4
  <2>8. Before(delivery', deferred')
    BY <1>2 DEF Tapped, TInv, Ascending
  <2>9. BeforeUp(delivery)'
    <3> SUFFICES ASSUME NEW j \in 1..Len(delivery'), NEW k \in 1..Len(up'),
                        delivery'[j].kind = "Tap", up'[k].op = "Tap"
                 PROVE  delivery'[j].tap < up'[k].seq
      BY DEF BeforeUp
    <3>1. (k \in 1..Len(up) /\ up'[k] = up[k]) \/ (k = Len(up) + 1 /\ up'[k].seq = sent + 1)
      BY <1>2 DEF Tapped
    <3>2. /\ delivery' = delivery /\ delivery[j].tap <= sent
          /\ delivery[j].tap \in Nat /\ sent \in Nat
      BY <1>2, TapNumbers DEF Tapped, TInv, NotAhead
    <3>3. CASE k \in 1..Len(up) /\ up'[k] = up[k]
      BY <3>2, <3>3 DEF TInv, Ascending, BeforeUp
    <3>4. CASE k = Len(up) + 1 /\ up'[k].seq = sent + 1
      BY <3>2, <3>4
    <3>5. QED
      BY <3>1, <3>3, <3>4
  <2>10. BeforeUp(deferred)'
    <3> SUFFICES ASSUME NEW j \in 1..Len(deferred'), NEW k \in 1..Len(up'),
                        deferred'[j].kind = "Tap", up'[k].op = "Tap"
                 PROVE  deferred'[j].tap < up'[k].seq
      BY DEF BeforeUp
    <3>1. (k \in 1..Len(up) /\ up'[k] = up[k]) \/ (k = Len(up) + 1 /\ up'[k].seq = sent + 1)
      BY <1>2 DEF Tapped
    <3>2. /\ deferred' = deferred /\ deferred[j].tap <= sent
          /\ deferred[j].tap \in Nat /\ sent \in Nat
      BY <1>2, TapNumbers DEF Tapped, TInv, NotAhead
    <3>3. CASE k \in 1..Len(up) /\ up'[k] = up[k]
      BY <3>2, <3>3 DEF TInv, Ascending, BeforeUp
    <3>4. CASE k = Len(up) + 1 /\ up'[k].seq = sent + 1
      BY <3>2, <3>4
    <3>5. QED
      BY <3>1, <3>3, <3>4
  <2>11. QED
    BY <2>1, <2>2, <2>3, <2>4, <2>5, <2>6, <2>7, <2>8, <2>9, <2>10 DEF Ascending
<1>3. CASE Moved
  <2>1. DeliveredIncreasing'
    BY <1>3 DEF Moved, TInv, Ascending, DeliveredIncreasing
  <2>2. Increasing(delivery')
    BY <1>3 DEF Moved, TInv, Ascending
  <2>3. Increasing(deferred')
    BY <1>3 DEF Moved, TInv, Ascending, Increasing, BeforeUp
  <2>4. UpIncreasing'
    <3>1. ASSUME NEW j \in 1..Len(up'), NEW k \in 1..Len(up'), up'[j].op = "Tap",
                 up'[k].op = "Tap", j < k
          PROVE  up'[j].seq < up'[k].seq
      <4>1. /\ j + 1 \in 1..Len(up) /\ k + 1 \in 1..Len(up) /\ j + 1 < k + 1
            /\ up'[j] = up[j + 1] /\ up'[k] = up[k + 1]
        BY <1>3, <3>1 DEF Moved
      <4>2. QED
        BY <3>1, <4>1 DEF TInv, Ascending, UpIncreasing
    <3>2. QED
      BY <3>1 DEF UpIncreasing
  <2>5. DeliveredBefore(delivery)'
    BY <1>3 DEF Moved, TInv, Ascending, DeliveredBefore
  <2>6. DeliveredBefore(deferred)'
    BY <1>3, TapNumbers DEF Moved, TInv, Ascending, DeliveredBefore, DeliveredBeforeUp
  <2>7. DeliveredBeforeUp'
    BY <1>3, TapNumbers DEF Moved, TInv, Ascending, DeliveredBeforeUp
  <2>8. Before(delivery', deferred')
    BY <1>3, TapNumbers DEF Moved, TInv, Ascending, Before, BeforeUp
  <2>9. BeforeUp(delivery)'
    BY <1>3, TapNumbers DEF Moved, TInv, Ascending, BeforeUp
  <2>10. BeforeUp(deferred)'
    <3>1. ASSUME NEW j \in 1..Len(deferred'), NEW k \in 1..Len(up'), deferred'[j].kind = "Tap",
                 up'[k].op = "Tap"
          PROVE  deferred'[j].tap < up'[k].seq
      <4>1. k + 1 \in 1..Len(up) /\ up'[k] = up[k + 1] /\ 1 \in 1..Len(up) /\ 1 < k + 1
        BY <1>3 DEF Moved
      <4>2. CASE j \in 1..Len(deferred) /\ deferred'[j] = deferred[j]
        BY <3>1, <4>1, <4>2 DEF TInv, Ascending, BeforeUp
      <4>3. CASE up[1].op = "Tap" /\ deferred'[j].tap = up[1].seq
        BY <3>1, <4>1, <4>3 DEF TInv, Ascending, UpIncreasing
      <4>4. QED
        BY <1>3, <3>1, <4>2, <4>3 DEF Moved
    <3>2. QED
      BY <3>1 DEF BeforeUp
  <2>11. QED
    BY <2>1, <2>2, <2>3, <2>4, <2>5, <2>6, <2>7, <2>8, <2>9, <2>10 DEF Ascending
<1>4. CASE Handed
  <2>1. DeliveredIncreasing'
    BY <1>4 DEF Handed, TInv, Ascending, DeliveredIncreasing
  <2>2. Increasing(delivery')
    BY <1>4, TapNumbers DEF Handed, Same, SameUp, TInv, Ascending, Increasing
  <2>3. Increasing(deferred')
    BY <1>4 DEF Handed, Increasing
  <2>4. UpIncreasing'
    BY <1>4, TapNumbers DEF Handed, Same, SameUp, TInv, Ascending, UpIncreasing
  <2>5. DeliveredBefore(delivery)'
    BY <1>4 DEF Handed, Same, TInv, Ascending, DeliveredBefore
  <2>6. DeliveredBefore(deferred)'
    BY <1>4 DEF Handed, DeliveredBefore
  <2>7. DeliveredBeforeUp'
    BY <1>4 DEF Handed, SameUp, TInv, Ascending, DeliveredBeforeUp
  <2>8. Before(delivery', deferred')
    BY <1>4 DEF Handed, Before
  <2>9. BeforeUp(delivery)'
    BY <1>4, TapNumbers DEF Handed, Same, SameUp, TInv, Ascending, BeforeUp
  <2>10. BeforeUp(deferred)'
    BY <1>4 DEF Handed, BeforeUp
  <2>11. QED
    BY <2>1, <2>2, <2>3, <2>4, <2>5, <2>6, <2>7, <2>8, <2>9, <2>10 DEF Ascending
<1>5. CASE Told
  <2>1. DeliveredIncreasing'
    <3> SUFFICES ASSUME NEW j \in 1..Len(delivered'), NEW k \in 1..Len(delivered'), j < k
                 PROVE  delivered'[j] < delivered'[k]
      BY DEF DeliveredIncreasing
    <3>1. \/ k \in 1..Len(delivered) /\ delivered'[k] = delivered[k]
          \/ /\ k = Len(delivered) + 1
             /\ delivery[1].kind = "Tap" /\ delivered'[k] = delivery[1].tap
      BY <1>5 DEF Told
    <3>2. j \in 1..Len(delivered) /\ delivered'[j] = delivered[j]
      BY <1>5, <3>1 DEF Told
    <3>3. QED
      BY <1>5, <3>1, <3>2 DEF Told, TInv, Ascending, DeliveredIncreasing, DeliveredBefore
  <2>2. Increasing(delivery')
    <3>1. ASSUME NEW j \in 1..Len(delivery'), NEW k \in 1..Len(delivery'),
                 delivery'[j].kind = "Tap", delivery'[k].kind = "Tap", j < k
          PROVE  delivery'[j].tap < delivery'[k].tap
      <4>1. /\ j + 1 \in 1..Len(delivery) /\ k + 1 \in 1..Len(delivery) /\ j + 1 < k + 1
            /\ delivery'[j] = delivery[j + 1] /\ delivery'[k] = delivery[k + 1]
        BY <1>5, <3>1 DEF Told
      <4>2. QED
        BY <3>1, <4>1 DEF TInv, Ascending, Increasing
    <3>2. QED
      BY <3>1 DEF Increasing
  <2>3. Increasing(deferred')
    BY <1>5 DEF Told, TInv, Ascending
  <2>4. UpIncreasing'
    BY <1>5 DEF Told, TInv, Ascending, UpIncreasing
  <2>5. DeliveredBefore(delivery)'
    <3>1. ASSUME NEW j \in 1..Len(delivered'), NEW k \in 1..Len(delivery'),
                   delivery'[k].kind = "Tap"
          PROVE  delivered'[j] < delivery'[k].tap
      <4>1. /\ k + 1 \in 1..Len(delivery) /\ delivery'[k] = delivery[k + 1]
            /\ 1 \in 1..Len(delivery) /\ 1 < k + 1
        BY <1>5 DEF Told
      <4>2. CASE j \in 1..Len(delivered) /\ delivered'[j] = delivered[j]
        BY <3>1, <4>1, <4>2 DEF TInv, Ascending, DeliveredBefore
      <4>3. CASE delivery[1].kind = "Tap" /\ delivered'[j] = delivery[1].tap
        BY <3>1, <4>1, <4>3 DEF TInv, Ascending, Increasing
      <4>4. QED
        BY <1>5, <3>1, <4>2, <4>3 DEF Told
    <3>2. QED
      BY <3>1 DEF DeliveredBefore
  <2>6. DeliveredBefore(deferred)'
    BY <1>5, TapNumbers DEF Told, TInv, Ascending, DeliveredBefore, Before
  <2>7. DeliveredBeforeUp'
    BY <1>5, TapNumbers DEF Told, TInv, Ascending, DeliveredBeforeUp, BeforeUp
  <2>8. Before(delivery', deferred')
    BY <1>5, TapNumbers DEF Told, TInv, Ascending, Before
  <2>9. BeforeUp(delivery)'
    BY <1>5, TapNumbers DEF Told, TInv, Ascending, BeforeUp
  <2>10. BeforeUp(deferred)'
    BY <1>5 DEF Told, TInv, Ascending, BeforeUp
  <2>11. QED
    BY <2>1, <2>2, <2>3, <2>4, <2>5, <2>6, <2>7, <2>8, <2>9, <2>10 DEF Ascending
<1>6. QED
  BY <1>1, <1>2, <1>3, <1>4, <1>5, TapSteps

LEMMA NotAheadStep == ASSUME TInv, [Next]_vars PROVE NotAhead'
<1>1. CASE Stay
  <2>1. \A k \in 1..Len(delivered') : delivered'[k] <= sent'
    BY <1>1 DEF Stay, TInv, NotAhead
  <2>2. \A k \in 1..Len(delivery') : delivery'[k].kind = "Tap" => delivery'[k].tap <= sent'
    BY <1>1 DEF Stay, TInv, NotAhead
  <2>3. \A k \in 1..Len(deferred') : deferred'[k].kind = "Tap" => deferred'[k].tap <= sent'
    BY <1>1 DEF Stay, Same, TInv, NotAhead
  <2>4. \A k \in 1..Len(up') : up'[k].op = "Tap" => up'[k].seq <= sent'
    BY <1>1 DEF Stay, SameUp, TInv, NotAhead
  <2>5. QED
    BY <2>1, <2>2, <2>3, <2>4 DEF NotAhead
<1>2. CASE Tapped
  <2>1. \A k \in 1..Len(delivered') : delivered'[k] <= sent'
    BY <1>2, TapNumbers DEF Tapped, TInv, NotAhead
  <2>2. \A k \in 1..Len(delivery') : delivery'[k].kind = "Tap" => delivery'[k].tap <= sent'
    BY <1>2, TapNumbers DEF Tapped, TInv, NotAhead
  <2>3. \A k \in 1..Len(deferred') : deferred'[k].kind = "Tap" => deferred'[k].tap <= sent'
    BY <1>2, TapNumbers DEF Tapped, TInv, NotAhead
  <2>4. \A k \in 1..Len(up') : up'[k].op = "Tap" => up'[k].seq <= sent'
    BY <1>2, TapNumbers DEF Tapped, TInv, NotAhead
  <2>5. QED
    BY <2>1, <2>2, <2>3, <2>4 DEF NotAhead
<1>3. CASE Moved
  <2>1. \A k \in 1..Len(delivered') : delivered'[k] <= sent'
    BY <1>3 DEF Moved, TInv, NotAhead
  <2>2. \A k \in 1..Len(delivery') : delivery'[k].kind = "Tap" => delivery'[k].tap <= sent'
    BY <1>3 DEF Moved, TInv, NotAhead
  <2>3. \A k \in 1..Len(deferred') : deferred'[k].kind = "Tap" => deferred'[k].tap <= sent'
    BY <1>3 DEF Moved, TInv, NotAhead
  <2>4. \A k \in 1..Len(up') : up'[k].op = "Tap" => up'[k].seq <= sent'
    BY <1>3, TapNumbers DEF Moved, TInv, NotAhead
  <2>5. QED
    BY <2>1, <2>2, <2>3, <2>4 DEF NotAhead
<1>4. CASE Handed
  <2>1. \A k \in 1..Len(delivered') : delivered'[k] <= sent'
    BY <1>4 DEF Handed, TInv, NotAhead
  <2>2. \A k \in 1..Len(delivery') : delivery'[k].kind = "Tap" => delivery'[k].tap <= sent'
    BY <1>4 DEF Handed, Same, TInv, NotAhead
  <2>3. \A k \in 1..Len(deferred') : deferred'[k].kind = "Tap" => deferred'[k].tap <= sent'
    BY <1>4 DEF Handed
  <2>4. \A k \in 1..Len(up') : up'[k].op = "Tap" => up'[k].seq <= sent'
    BY <1>4 DEF Handed, SameUp, TInv, NotAhead
  <2>5. QED
    BY <2>1, <2>2, <2>3, <2>4 DEF NotAhead
<1>5. CASE Told
  <2>1. \A k \in 1..Len(delivered') : delivered'[k] <= sent'
    BY <1>5 DEF Told, TInv, NotAhead
  <2>2. \A k \in 1..Len(delivery') : delivery'[k].kind = "Tap" => delivery'[k].tap <= sent'
    BY <1>5 DEF Told, TInv, NotAhead
  <2>3. \A k \in 1..Len(deferred') : deferred'[k].kind = "Tap" => deferred'[k].tap <= sent'
    BY <1>5 DEF Told, TInv, NotAhead
  <2>4. \A k \in 1..Len(up') : up'[k].op = "Tap" => up'[k].seq <= sent'
    BY <1>5 DEF Told, TInv, NotAhead
  <2>5. QED
    BY <2>1, <2>2, <2>3, <2>4 DEF NotAhead
<1>6. QED
  BY <1>1, <1>2, <1>3, <1>4, <1>5, TapSteps

-----------------------------------------------------------------------------
(* No event the server has deferred gets lost on its way to the             *)
(* application, and no tap on the wire of an open connection but by an      *)
(* overflow.                                                                *)

Extends(new, old) == \A k \in 1..Len(old) : k \in 1..Len(new) /\ new[k] = old[k]

LEMMA ExtendsSame == ASSUME NEW s PROVE Extends(s, s)
BY DEF Extends

LEMMA ExtendsAppend ==
    ASSUME NEW S, NEW s \in Seq(S), NEW e \in S PROVE Extends(Append(s, e), s)
<1> DEFINE t == Append(s, e)
<1>1. Len(s) \in Nat /\ Len(t) = Len(s) + 1 /\ \A k \in 1..Len(s) : t[k] = s[k]
  OBVIOUS
<1> HIDE DEF t
<1>2. \A k \in 1..Len(s) : k \in 1..Len(t)
  BY <1>1
<1>3. Extends(t, s)
  BY <1>1 DEF Extends
<1>4. QED
  BY <1>3 DEF t

LEMMA ExtendsMay == ASSUME TInv, NEW events \in MayDefer PROVE Extends(events, deferred)
BY Events, ExtendsSame, ExtendsAppend DEF MayDefer, TInv, Types, EventTypes

LEMMA EventSteps ==
    ASSUME TInv, [Next]_vars
    PROVE  \/ UNCHANGED <<delivered, failures, delivery>> /\ Extends(deferred', deferred)
           \/ delivery = <<>> /\ UNCHANGED <<delivered, failures>> /\ Extends(delivery', deferred)
           \/ /\ delivery # <<>> /\ delivery' = Tail(delivery) /\ deferred' = deferred
              /\ Extends(delivered', delivered) /\ failures \subseteq failures'
              /\ \A e : e = Head(delivery) => Reached(e)'
<1>1. CASE Client
  <2>1. UNCHANGED serverVars
    BY <1>1 DEF Client, Connect, ConnectTimeout, Close, Tap, ReadFrame, ResendRelease,
       SendRequest, ReadTimeout, ReadDisconnected, ReceiveFrame, CopyEnd, ReturnFrame,
       Unread
  <2>2. QED
    BY <2>1, ExtendsSame DEF serverVars, hostVars, pollVars
<1>2. CASE PublishBegin
  BY <1>2, BeginFacts, ExtendsSame DEF hostVars
<1>3. CASE PublishEnd
  BY <1>3, EndFacts, ExtendsMay DEF PublishEnd, hostVars
<1>4. CASE PollBegin
  BY <1>4, ExtendsSame DEF PollBegin, hostVars
<1>5. CASE PollHangup
  BY <1>5, ExtendsMay DEF PollHangup, MayDefer, pollVars, hostVars
<1>6. CASE PollReceive
  <2>1. UNCHANGED <<delivered, failures, delivery>>
    BY <1>6, Receives DEF hostVars
  <2>2. deferred' = deferred \/ deferred' = Append(deferred, TapEvent(Head(up).seq))
    BY <1>6, Receives
  <2>3. Head(up) \in Message
    BY <1>6, Receives DEF TInv, Types, UpTypes
  <2>4. TapEvent(Head(up).seq) \in Event
    BY <2>3, Events DEF Message
  <2>5. Extends(deferred', deferred)
    BY <2>2, <2>4, ExtendsSame, ExtendsAppend DEF TInv, Types, EventTypes
  <2>6. QED
    BY <2>1, <2>5
<1>7. CASE PollOverflow
  <2>1. /\ delivery = <<>> /\ UNCHANGED <<delivered, failures>>
        /\ delivery' = Append(deferred, Failure("Overflow"))
    BY <1>7 DEF PollOverflow, Drained, EndPoll, hostVars, TInv, EventRoom
  <2>2. Extends(delivery', deferred)
    BY <2>1, Events, ExtendsAppend DEF TInv, Types, EventTypes
  <2>3. QED
    BY <2>1, <2>2
<1>8. CASE PollReply
  <2>1. delivery = <<>> /\ UNCHANGED <<delivered, failures>> /\ delivery' \in MayDefer
    BY <1>8 DEF PollReply, Drained, EndPoll, hostVars, TInv, EventRoom
  <2>2. QED
    BY <2>1, ExtendsMay
<1>9. CASE Deliver
  <2>1. delivery # <<>> /\ delivery' = Tail(delivery) /\ deferred' = deferred
    BY <1>9 DEF Deliver
  <2>2. Head(delivery) \in Event
    BY <2>1 DEF TInv, Types, EventTypes
  <2>3. CASE Head(delivery).kind = "Tap"
    <3>1. delivered' = Append(delivered, Head(delivery).tap) /\ failures' = failures
      BY <1>9, <2>3 DEF Deliver
    <3>2. Head(delivery).tap \in Nat /\ delivered \in Seq(Nat)
      BY <2>2 DEF Event, TInv, Types, EventTypes
    <3>3. Extends(delivered', delivered)
      BY <3>1, <3>2, ExtendsAppend
    <3>4. Len(delivered) + 1 \in 1..Len(delivered') /\
            delivered'[Len(delivered) + 1] = Head(delivery).tap
      BY <3>1
    <3>5. ASSUME NEW e, e = Head(delivery) PROVE Reached(e)'
      BY <2>3, <3>4, <3>5 DEF Reached
    <3>6. QED
      BY <2>1, <3>1, <3>3, <3>5
  <2>4. CASE Head(delivery).kind # "Tap"
    <3>1. delivered' = delivered /\ failures' = failures \cup {Head(delivery).kind}
      BY <1>9, <2>4 DEF Deliver
    <3>2. ASSUME NEW e, e = Head(delivery) PROVE Reached(e)'
      BY <2>4, <3>1, <3>2 DEF Reached
    <3>3. QED
      BY <2>1, <3>1, <3>2, ExtendsSame
  <2>5. QED
    BY <2>3, <2>4
<1>10. CASE UNCHANGED vars
  BY <1>10, ExtendsSame DEF vars, hostVars, pollVars
<1>11. QED
  BY <1>1, <1>2, <1>3, <1>4, <1>5, <1>6, <1>7, <1>8, <1>9, <1>10 DEF Next, Server

LEMMA HeldStays == ASSUME TInv, [Next]_vars, NEW e \in Event, Held(e) PROVE Held(e)'
<1>1. CASE UNCHANGED <<delivered, failures, delivery>> /\ Extends(deferred', deferred)
  BY <1>1 DEF Held, Reached, Extends
<1>2. CASE /\ delivery = <<>> /\ UNCHANGED <<delivered, failures>>
           /\ Extends(delivery', deferred)
  BY <1>2 DEF Held, Reached, Extends
<1>3. CASE /\ delivery # <<>> /\ delivery' = Tail(delivery) /\ deferred' = deferred
           /\ Extends(delivered', delivered) /\ failures \subseteq failures'
           /\ \A d : d = Head(delivery) => Reached(d)'
  <2>1. CASE Reached(e)
    BY <1>3, <2>1 DEF Held, Reached, Extends
  <2>2. CASE \E k \in 1..Len(deferred) : deferred[k] = e
    BY <1>3, <2>2 DEF Held
  <2>3. ASSUME NEW k \in 1..Len(delivery), delivery[k] = e PROVE Held(e)'
    <3>1. CASE k = 1
      <4>1. e = Head(delivery)
        BY <2>3, <3>1
      <4>2. QED
        BY <1>3, <4>1 DEF Held
    <3>2. CASE k # 1
      <4>1. Len(delivery') = Len(delivery) - 1 /\ Len(delivery) \in Nat
        BY <1>3
      <4>2. k - 1 \in 1..Len(delivery') /\ (k - 1) + 1 = k
        BY <3>2, <4>1
      <4>3. delivery'[k - 1] = e
        BY <1>3, <2>3, <4>2
      <4>4. QED
        BY <4>2, <4>3 DEF Held
    <3>3. QED
      BY <3>1, <3>2
  <2>4. QED
    BY <2>1, <2>2, <2>3 DEF Held
<1>4. QED
  BY <1>1, <1>2, <1>3, EventSteps

LEMMA AlarmStays == ASSUME TInv, [Next]_vars, Alarmed PROVE Alarmed'
BY HeldStays DEF Alarmed

LEMMA OverflowAlarms == ASSUME TInv, PollOverflow PROVE Alarmed'
<1>1. Failure("Overflow") \in Event /\ Failure("Overflow").kind = "Overflow"
  BY Events DEF Failure
<1>2. delivery' = Append(deferred, Failure("Overflow"))
  BY DEF PollOverflow, EndPoll
<1>3. Len(deferred) + 1 \in 1..Len(delivery') /\ delivery'[Len(deferred) + 1] = Failure("Overflow")
  BY <1>2
<1>4. Held(Failure("Overflow"))'
  BY <1>3 DEF Held
<1>5. QED
  BY <1>1, <1>4 DEF Alarmed

(* On an open connection the server receives what the client sends, unless  *)
(* it hangs up for an overflow.                                             *)
LEMMA UpSteps ==
    ASSUME TInv, [Next]_vars, Open, Open' \/ handle_state' = "connected"
    PROVE  \/ PollOverflow
           \/ client' = "open" /\ Extends(up', up)
           \/ /\ client' = "open" /\ up # <<>> /\ up' = Tail(up)
              /\ Head(up).op = "Tap" => deferred' = Append(deferred, TapEvent(Head(up).seq))
<1>1. client = "open" /\ handle_state = "connected" /\ peer = "open"
  BY DEF Open, TInv, Places
<1>2. CASE Client
  <2>1. client' = "open"
    BY <1>1, <1>2 DEF Client, Connect, ConnectTimeout, Close, Tap, ReadFrame,
       ResendRelease, SendRequest, ReadTimeout, ReadDisconnected, ReceiveFrame, CopyEnd,
       ReturnFrame, Unread, serverVars, leaseVars
  <2>2. \/ up' = up \/ up' = Append(up, Release) \/ up' = Append(up, Packet("Tap", sent + 1, 0))
        \/ up' = Append(up, Packet("Request", last_sequence, 0))
    BY <1>2 DEF Client, Connect, ConnectTimeout, Close, Tap, ReadFrame, ResendRelease,
       SendRequest, ReadTimeout, ReadDisconnected, ReceiveFrame, CopyEnd, ReturnFrame,
       Send
  <2>3. Extends(up', up)
    BY <2>2, Packets, ExtendsSame, ExtendsAppend DEF TInv, Types, UpTypes
  <2>4. QED
    BY <2>1, <2>3
<1>3. CASE PublishBegin
  BY <1>1, <1>3, BeginFacts, ExtendsSame
<1>4. CASE PublishEnd \/ PollReply
  BY <1>1, <1>4, Replies, ExtendsSame DEF Silent, Dropped, Answered
<1>5. CASE PollBegin
  BY <1>1, <1>5, ExtendsSame DEF PollBegin
<1>6. CASE PollHangup
  BY <1>1, <1>6 DEF PollHangup
<1>7. CASE PollReceive
  BY <1>7, Receives
<1>8. CASE Deliver
  BY <1>1, <1>8, ExtendsSame DEF Deliver, leaseVars
<1>9. CASE UNCHANGED vars
  BY <1>1, <1>9, ExtendsSame DEF vars, leaseVars
<1>10. QED
  BY <1>2, <1>3, <1>4, <1>5, <1>6, <1>7, <1>8, <1>9 DEF Next, Server

LEMMA FoundStays ==
    ASSUME TInv, [Next]_vars, Open, handle_state' = "connected", ~PollOverflow, NEW n \in Nat,
             Found(n)
    PROVE  Found(n)'
<1>1. TapEvent(n) \in Event
  BY Events
<1>2. CASE Held(TapEvent(n))
  BY <1>1, <1>2, HeldStays DEF Found
<1>3. ASSUME NEW k \in 1..Len(up), up[k].op = "Tap", up[k].seq = n PROVE Found(n)'
  <2>1. CASE Extends(up', up)
    BY <1>3, <2>1 DEF Extends, Found
  <2>2. CASE /\ up # <<>> /\ up' = Tail(up)
             /\ Head(up).op = "Tap" => deferred' = Append(deferred, TapEvent(Head(up).seq))
    <3>1. CASE k = 1
      <4>1. Head(up) = up[1]
        OBVIOUS
      <4>2. deferred' = Append(deferred, TapEvent(n))
        BY <1>3, <2>2, <3>1
      <4>3. Len(deferred) + 1 \in 1..Len(deferred') /\ deferred'[Len(deferred) + 1] = TapEvent(n)
        BY <4>2
      <4>4. QED
        BY <4>3 DEF Found, Held
    <3>2. CASE k # 1
      <4>1. Len(up') = Len(up) - 1 /\ Len(up) \in Nat
        BY <2>2
      <4>2. k - 1 \in 1..Len(up') /\ (k - 1) + 1 = k
        BY <3>2, <4>1
      <4>3. up'[k - 1] = up[k]
        BY <2>2, <4>2
      <4>4. QED
        BY <1>3, <4>2, <4>3 DEF Found
    <3>3. QED
      BY <3>1, <3>2
  <2>3. QED
    BY <2>1, <2>2, UpSteps
<1>4. QED
  BY <1>2, <1>3 DEF Found

LEMMA TapFound == ASSUME TInv, Tap PROVE sent' = sent + 1 /\ \A n : n = sent' => Found(n)'
<1>1. /\ up' = Append(up, Packet("Tap", sent + 1, 0)) /\ sent' = sent + 1
  BY DEF Tap, Send
<1>2. /\ Packet("Tap", sent + 1, 0) \in Message /\ Packet("Tap", sent + 1, 0).seq = sent + 1
      /\ Packet("Tap", sent + 1, 0).op = "Tap"
  BY Packets DEF Packet, TInv, Types
<1>3. /\ Len(up) + 1 \in 1..Len(up') /\ up'[Len(up) + 1] = Packet("Tap", sent + 1, 0)
  BY <1>1
<1>4. \E k \in 1..Len(up') : up'[k].op = "Tap" /\ up'[k].seq = sent + 1
  BY <1>2, <1>3
<1>5. ASSUME NEW n, n = sent' PROVE Found(n)'
  BY <1>1, <1>4, <1>5 DEF Found
<1>6. QED
  BY <1>1, <1>5

LEMMA KeptStep == ASSUME TInv, [Next]_vars PROVE Kept'
<1>1. connections \in Nat /\ sent \in Nat
  BY DEF TInv, Types, ClientTypes
<1>2. CASE Connect
  <2>1. handle_state' = "connecting" /\ connections' = connections + 1 /\ sent' = sent
    BY <1>2 DEF Connect
  <2>2. QED
    BY <1>1, <2>1 DEF TInv, Kept
<1>3. CASE ~Connect
  <2>1. connections' = connections
    BY <1>3 DEF Next, Client, Server, ConnectTimeout, Close, Tap, ReadFrame,
       ResendRelease, SendRequest, ReadTimeout, ReadDisconnected, ReceiveFrame, CopyEnd,
       ReturnFrame, Unread, PublishBegin, PublishEnd, PollBegin, PollHangup,
       PollReceive, PollOverflow, PollReply, Deliver, EndPoll, clientVars, vars
  <2>2. \/ handle_state' = handle_state
        \/ handle_state' = "absent"
        \/ handle_state = "connecting" /\ handle_state' = "connected" /\ client' = "open"
    BY <1>3 DEF Next, Client, Server, ConnectTimeout, Close, Tap, ReadFrame,
       ResendRelease, SendRequest, ReadTimeout, ReadDisconnected, ReceiveFrame, CopyEnd,
       ReturnFrame, Unread, PublishBegin, PublishEnd, PollBegin, PollHangup,
       PollReceive, PollOverflow, PollReply, Deliver, EndPoll, clientVars, vars
  <2>3. sent' = sent \/ Tap
    BY <1>3 DEF Next, Client, Server, ConnectTimeout, Close, ReadFrame, ResendRelease,
       SendRequest, ReadTimeout, ReadDisconnected, ReceiveFrame, CopyEnd, ReturnFrame,
       Unread, PublishBegin, PublishEnd, PollBegin, PollHangup, PollReceive,
       PollOverflow, PollReply, Deliver, EndPoll, clientVars, vars
  <2>4. Tap => handle_state = "connected" /\ handle_state' = "connected"
    BY DEF Tap, Send, Open
  <2>5. connections' = 0 => handle_state' = "absent"
    BY <2>1, <2>2 DEF TInv, Kept
  <2>6. connections' = 0 \/ (handle_state' = "connecting" /\ connections' = 1) => sent' = 0
    BY <2>1, <2>2, <2>3, <2>4 DEF TInv, Kept
  <2>7. ASSUME connections' = 1, handle_state' = "connected"
        PROVE  (client' = "open" /\ \A n \in 1..sent' : Found(n)') \/ Alarmed'
    <3>1. CASE handle_state = "connecting"
      BY <2>1, <2>2, <2>3, <2>4, <2>7, <3>1 DEF TInv, Kept
    <3>2. CASE handle_state = "connected" /\ Alarmed
      BY <3>2, AlarmStays
    <3>3. CASE handle_state = "connected" /\ client = "open" /\ \A n \in 1..sent : Found(n)
      <4>1. CASE PollOverflow
        BY <4>1, OverflowAlarms
      <4>2. CASE ~PollOverflow
        <5>1. \A n \in 1..sent : Found(n)'
          BY <2>7, <3>3, <4>2, FoundStays DEF Open
        <5>2. client' = "open"
          BY <2>7, <3>3, <4>2, UpSteps DEF Open
        <5>3. \A n \in 1..sent' : n \in 1..sent \/ (n = sent + 1 /\ Tap)
          BY <1>1, <2>3, TapFound
        <5>4. ASSUME NEW n \in 1..sent' PROVE Found(n)'
          <6>1. CASE n \in 1..sent
            BY <5>1, <6>1
          <6>2. CASE n = sent + 1 /\ Tap
            BY <6>2, TapFound
          <6>3. QED
            BY <5>3, <6>1, <6>2
        <5>5. QED
          BY <5>2, <5>4
      <4>3. QED
        BY <4>1, <4>2
    <3>4. QED
      BY <2>1, <2>2, <2>7, <3>1, <3>2, <3>3 DEF TInv, Kept
  <2>8. QED
    BY <2>5, <2>6, <2>7 DEF Kept
<1>4. QED
  BY <1>2, <1>3

-----------------------------------------------------------------------------
LEMMA Starts == ASSUME Init PROVE TInv
<1>1. Init
  OBVIOUS
<1>2. NoSlot \in Slot \cup {NoSlot} /\ \A s \in Slot : s # NoSlot
  BY DEF NoSlot, Slot
<1>3. up = <<>> /\ down = <<>> /\ deferred = <<>> /\ delivery = <<>> /\ delivered = <<>>
  BY DEF Init
<1>4. Len(up) = 0 /\ Len(down) = 0 /\ Len(deferred) = 0 /\ Len(delivery) = 0 /\ Len(delivered) = 0
  BY <1>3
<1>5. /\ up \in Seq(Message) /\ down \in Seq([slot : Slot, seq : Nat])
      /\ deferred \in Seq(Event) /\ delivery \in Seq(Event) /\ delivered \in Seq(Nat)
  BY <1>3
<1>6. Types
  <2>1. ServerTypes /\ SlotTypes
    BY TransportAssumption DEF Init, ServerTypes, SlotTypes, Blank
  <2>2. UpTypes /\ DownTypes
    BY <1>4, TransportAssumption DEF UpTypes, DownTypes
  <2>3. EventTypes
    BY DEF Init, EventTypes
  <2>4. ClientTypes
    BY DEF Init, ClientTypes, NoCopy, Image, Slot
  <2>5. QED
    BY <2>1, <2>2, <2>3, <2>4 DEF Types
<1>7. Flags /\ Filling /\ Newest /\ Lease /\ PendingFits /\ Places /\ Down
  BY <1>1 DEF Init, Flags, Filling, Newest, Lease, PendingFits, Places, Down
<1>8. Whole
  BY DEF Init, Whole, Blank
<1>9. ReleasesFit /\ RequestsFit
  BY <1>4 DEF ReleasesFit, RequestsFit
<1>10. OwesNothing /\ Holding /\ Returned /\ Waiting
  BY DEF Init, Open, OwesNothing, Holding, Returned, Waiting
<1>11. Copies
  BY DEF Init, Copies, NoCopy
<1>12. NotAccused /\ NotAhead
  BY <1>4 DEF NotAccused, NotAhead
<1>13. EventRoom
  BY TransportAssumption DEF Init, EventRoom
<1>14. Ascending
  BY <1>4 DEF Ascending, DeliveredIncreasing, Increasing, UpIncreasing, DeliveredBefore,
     DeliveredBeforeUp, Before, BeforeUp
<1>15. Kept
  BY DEF Init, Kept
<1>16. QED
  BY <1>6, <1>7, <1>8, <1>9, <1>10, <1>11, <1>12, <1>13, <1>14, <1>15 DEF TInv

LEMMA Inductive == ASSUME TInv, [Next]_vars PROVE TInv'
<1>1. Types'
  BY ServerTypesStep, SlotTypesStep, UpTypesStep, DownTypesStep, EventTypesStep,
     ClientTypesStep DEF Types
<1>2. Flags' /\ Filling' /\ Whole' /\ Newest' /\ Lease'
  BY FlagsStep, FillingStep, WholeStep, NewestStep, LeaseStep
<1>3. ReleasesFit' /\ RequestsFit' /\ PendingFits' /\ Places' /\ Down'
  BY ReleasesFitStep, RequestsFitStep, PendingFitsStep, PlacesStep, DownStep
<1>4. OwesNothing' /\ Holding' /\ Returned' /\ Waiting' /\ Copies'
  BY OwesNothingStep, HoldingStep, ReturnedStep, WaitingStep, CopiesStep
<1>5. NotAccused' /\ EventRoom' /\ Ascending' /\ NotAhead' /\ Kept'
  BY NotAccusedStep, EventRoomStep, AscendingStep, NotAheadStep, KeptStep
<1>6. QED
  BY <1>1, <1>2, <1>3, <1>4, <1>5 DEF TInv

LEMMA TInvCorrect == Spec => []TInv
BY Starts, Inductive, PTL DEF Spec

-----------------------------------------------------------------------------
(* The state has the shape of the code's variables, and deferred and        *)
(* delivery never outgrow the capacity that the constructor of              *)
(* Server::Impl reserves for them.                                          *)
THEOREM TypeCorrect == Spec => []TypeOK
<1>1. ASSUME TInv PROVE TypeOK
  <2>1. /\ ServerTypes /\ SlotTypes /\ UpTypes /\ EventTypes /\ ClientTypes /\ Flags /\ EventRoom
    BY <1>1 DEF TInv, Types
  <2>2. /\ leased_sequence \in 0..MaxFrames /\ request_after \in 0..MaxFrames
        /\ last_sequence \in 0..MaxFrames
    BY <2>1, TransportAssumption DEF ServerTypes, ClientTypes
  <2>3. reader # "failed" /\ {sequence, leased_sequence, request_after,
          last_sequence} \subseteq 0..MaxFrames
    BY <2>1, <2>2 DEF ServerTypes, ClientTypes
  <2>4. Len(deferred) \in Nat
    OBVIOUS
  <2>5. Len(deferred) <= MaxMessages + 2 /\ Len(delivery) <= MaxMessages + 2
    <3>1. received \in Nat /\ received <= MaxMessages /\ MaxMessages \in Nat
      BY <2>1, TransportAssumption DEF ServerTypes
    <3>2. CASE mutex = "poll"
      BY <2>1, <3>1 DEF EventRoom
    <3>3. CASE mutex # "poll"
      BY <2>1, <3>1 DEF EventRoom
    <3>4. QED
      BY <3>2, <3>3
  <2>6. {latest_slot, leased_slot, writing} \subseteq Slot \cup {NoSlot}
    BY <2>1 DEF ServerTypes
  <2>7. {request_pending, frame_reply_pending, reading, release_pending} \subseteq BOOLEAN
    BY <2>1, Zenon DEF Flags
  <2>8. QED
    BY <2>1, <2>3, <2>5, <2>6, <2>7 DEF TypeOK, ServerTypes, SlotTypes, UpTypes,
       EventTypes, ClientTypes
<1>2. QED
  BY <1>1, TInvCorrect, PTL

(* The client library of client.cpp keeps the protocol that handle of       *)
(* ipc.cpp enforces: through timeouts and sends that find no room the       *)
(* server never accuses it, and it never meets a stale frame.               *)
THEOREM ConformsCorrect == Spec => []Conforms
<1>1. ASSUME TInv PROVE Conforms
  <2>1. reader # "failed"
    BY <1>1 DEF TInv, Types, ClientTypes
  <2>2. \A k \in DOMAIN deferred : k \in 1..Len(deferred)
    OBVIOUS
  <2>3. \A k \in DOMAIN deferred : deferred[k].kind # "ProtocolError"
    BY <1>1 DEF TInv, NotAccused
  <2>4. Failure("ProtocolError").kind = "ProtocolError"
    BY DEF Failure
  <2>5. QED
    BY <2>1, <2>3, <2>4 DEF Conforms
<1>2. QED
  BY <1>1, TInvCorrect, PTL

(* The taps reach the application in the order in which cl_tap sent them,   *)
(* none of them twice, over any number of connections.                      *)
THEOREM TapsInOrderCorrect == Spec => []TapsInOrder
<1>1. ASSUME TInv PROVE TapsInOrder
  <2>1. DOMAIN delivered = 1..Len(delivered)
    OBVIOUS
  <2>2. QED
    BY <1>1, <2>1 DEF TInv, Ascending, DeliveredIncreasing, TapsInOrder
<1>2. QED
  BY <1>1, TInvCorrect, PTL

(* While the first connection lasts, a tap that cl_tap accepted is in the   *)
(* socket, in a queue of the server or with the application, unless the     *)
(* application is told of an overflow.                                      *)
THEOREM NoTapLostCorrect == Spec => []NoTapLostWhileConnected
<1>1. ASSUME TInv PROVE NoTapLostWhileConnected
  <2>1. /\ DOMAIN up = 1..Len(up) /\ DOMAIN delivered = 1..Len(delivered)
        /\ DOMAIN deferred = 1..Len(deferred) /\ DOMAIN delivery = 1..Len(delivery)
    OBVIOUS
  <2>2. ASSUME NEW n, Found(n) PROVE n \in TapsUnderWay \cup TapsReceived
    <3>1. TapEvent(n).kind = "Tap" /\ TapEvent(n).tap = n
      BY DEF TapEvent
    <3>2. CASE \E k \in 1..Len(up) : up[k].op = "Tap" /\ up[k].seq = n
      BY <3>2 DEF TapsUnderWay
    <3>3. CASE \E k \in 1..Len(deferred) : deferred[k] = TapEvent(n)
      BY <3>1, <3>3 DEF TapsReceived, TapsIn
    <3>4. CASE \E k \in 1..Len(delivery) : delivery[k] = TapEvent(n)
      BY <3>1, <3>4 DEF TapsReceived, TapsIn
    <3>5. CASE Reached(TapEvent(n))
      BY <3>1, <3>5 DEF Reached, TapsReceived
    <3>6. QED
      BY <2>2, <3>2, <3>3, <3>4, <3>5 DEF Found, Held
  <2>3. ASSUME Alarmed PROVE InvalidatingFailures # {}
    <3>1. PICK e \in Event : e.kind \in {"Overflow", "ProtocolError"} /\ Held(e)
      BY <2>3 DEF Alarmed
    <3>2. CASE \E k \in 1..Len(deferred) : deferred[k] = e
      BY <3>1, <3>2 DEF InvalidatingFailures
    <3>3. CASE \E k \in 1..Len(delivery) : delivery[k] = e
      BY <3>1, <3>3 DEF InvalidatingFailures
    <3>4. CASE Reached(e)
      BY <3>1, <3>4 DEF Reached, InvalidatingFailures
    <3>5. QED
      BY <3>1, <3>2, <3>3, <3>4 DEF Held
  <2>4. QED
    BY <1>1, <2>2, <2>3 DEF TInv, Kept, Lost, NoTapLostWhileConnected
<1>2. QED
  BY <1>1, TInvCorrect, PTL

(* What the reader is shown implements the mailbox of FrameMailbox: every   *)
(* successful cl_read_frame shows one whole frame, newer than the last,     *)
(* although publish may lap it or the server hang up during the copy.       *)
THEOREM ImplementsMailboxCorrect == Spec => ImplementsMailbox
<1>1. ASSUME Init PROVE Mailbox!MailboxInit
  BY <1>1 DEF Init, NoCopy, Mailbox!MailboxInit
<1>2. ASSUME TInv, TInv', [Next]_vars PROVE [Mailbox!MailboxNext]_(Mailbox!mailboxVars)
  <2>1. /\ frame.lo = frame.seq /\ frame.hi = frame.seq /\ frame'.lo = frame'.seq
        /\ frame'.hi = frame'.seq
    BY <1>2 DEF TInv, Copies
  <2>2. /\ sequence \in Nat /\ frame.seq \in Nat /\ frame.seq <= last_sequence
        /\ copy.seq \in 0..sequence
    BY <1>2 DEF TInv, Types, ServerTypes, ClientTypes, Copies, Image
  <2>3. CASE UNCHANGED <<sequence, frame>>
    BY <2>3 DEF Mailbox!mailboxVars
  <2>4. CASE PublishEnd
    <3>1. sequence < MaxFrames
      BY <1>2, <2>4, EndFacts DEF TInv, Filling
    <3>2. sequence' = sequence + 1 /\ frame' = frame
      BY <1>2, <2>4, EndFacts DEF readerVars
    <3>3. QED
      BY <3>1, <3>2 DEF Mailbox!MailboxNext, Mailbox!Publish
  <2>5. CASE Connect
    BY <2>5 DEF Connect, NoCopy, serverVars, slotVars, Mailbox!MailboxNext,
       Mailbox!Reconnect
  <2>6. CASE ReturnFrame
    <3>1. frame' = copy /\ sequence' = sequence /\ reader = "copied"
      BY <2>6 DEF ReturnFrame, Unread, serverVars, slotVars
    <3>2. frame.seq < copy.seq
      BY <1>2, <3>1 DEF TInv, Copies
    <3>3. copy.seq \in (frame.seq + 1)..sequence
      BY <2>2, <3>2
    <3>4. QED
      BY <2>1, <3>1, <3>3 DEF Mailbox!MailboxNext, Mailbox!Read
  <2>7. CASE ~(PublishEnd \/ Connect \/ ReturnFrame)
    <3>1. CASE Client
      BY <2>7, <3>1 DEF Client, ConnectTimeout, Close, Tap, ReadFrame, ResendRelease,
         SendRequest, ReadTimeout, ReadDisconnected, ReceiveFrame, CopyEnd, Unread,
         readerVars, serverVars, slotVars, Mailbox!mailboxVars
    <3>2. CASE PublishBegin
      BY <1>2, <3>2, BeginFacts DEF readerVars, Mailbox!mailboxVars
    <3>3. CASE PollReceive
      BY <3>3 DEF PollReceive, readerVars, slotVars, Mailbox!mailboxVars
    <3>4. CASE PollBegin \/ PollHangup \/ PollOverflow \/ PollReply \/ Deliver
      BY <3>4 DEF PollBegin, PollHangup, PollOverflow, PollReply, EndPoll, Deliver,
         readerVars, slotVars, Mailbox!mailboxVars
    <3>5. CASE UNCHANGED vars
      BY <3>5 DEF vars, readerVars, slotVars, Mailbox!mailboxVars
    <3>6. QED
      BY <1>2, <2>7, <3>1, <3>2, <3>3, <3>4, <3>5 DEF Next, Server
  <2>8. QED
    BY <2>4, <2>5, <2>6, <2>7
<1>3. QED
  BY <1>1, <1>2, TInvCorrect, PTL DEF Spec, ImplementsMailbox, Mailbox!MailboxSpec
=============================================================================
